---- MODULE Spec2Model ----
(***************************************************************************)
(* Model of the conversational AI response pipeline of Ai-data-chat:       *)
(* AIService (analyzeData, fallbackAnalysis, prepareDataContext,           *)
(* createAnalysisPrompt, callAI, parseAIResponse), the message codec       *)
(* ChatEncryption (encryptMessage, decryptMessage) and the chat handlers   *)
(* of DashboardPage (handleSendMessage, createOrGetSession,                *)
(* saveMessageToHistory, loadChatHistory).                                 *)
(*                                                                         *)
(* Text is a sequence of tokens; the string a sequence stands for is the   *)
(* concatenation of its tokens.  Tokens are the lexical units the code's   *)
(* string operations can tell apart: braces, brackets, quote, colon,       *)
(* comma, the two white-space characters, the three-backtick fence, digits *)
(* and words.                                                              *)
(***************************************************************************)
EXTENDS Integers, Sequences, FiniteSets, TLC

VARIABLES
    apiKey,            \* AIService.apiKey: TRUE when a credential is configured
    data_sources,      \* the data_sources table with its uploaded_csv_data rows
    pc,                \* position of the analyzeData / parse / context run
    userId,            \* analyzeData argument
    userMessage,       \* analyzeData argument
    selectedDatasets,  \* analyzeData argument: absent, or a list of ids
    query,             \* the storage query fallbackAnalysis awaits
    csvData,           \* the uploaded_csv_data rows handed to prepareDataContext
    dataContext,       \* result of prepareDataContext
    prompt,            \* result of createAnalysisPrompt
    fetchCalls,        \* number of storage queries issued
    httpCalls,         \* number of fetch() calls to the model endpoint
    inFlight,          \* number of model calls issued and not yet settled
    httpStatus,        \* what the model call settled with
    aiResponse,        \* the raw completion text given to parseAIResponse
    replyBody,         \* the JSON text the reply was composed around
    replyWrap,         \* how the reply was composed around replyBody
    result,            \* the value analyzeData / parseAIResponse settled with
    returnedAt,        \* the statement that produced result
    outcome,           \* "pending" | "resolved" | "rejected"
    composed,          \* the createAnalysisPrompt calls made, with their results
    codec,             \* one message on its way through ChatEncryption
    messageBox,        \* DashboardPage state `message`: the text of the input box
    loading,           \* DashboardPage state: the flag that disables the form
    currentSessionId,  \* DashboardPage state: the open chat session, or null
    messages,          \* DashboardPage state: the messages on screen
    chat_sessions,     \* the chat_sessions table
    chat_history,      \* the chat_history table
    runs,              \* the handleSendMessage runs, each at its await
    loads,             \* the loadChatHistory run, at its await
    now,               \* the client clock read by new Date()
    browser            \* the page's surroundings: crypto.subtle, the storage service

\* the state of AIService and of one analyzeData request
serviceVars == <<apiKey, data_sources, pc, userId, userMessage, selectedDatasets,
                 query, csvData, dataContext, prompt, fetchCalls, httpCalls,
                 inFlight, httpStatus, aiResponse, replyBody, replyWrap, result,
                 returnedAt, outcome>>

\* the state of DashboardPage and of the chat tables
dashboardVars == <<messageBox, loading, currentSessionId, messages, chat_sessions,
                   chat_history, runs, loads, now, browser>>

\* everything outside AIService
otherVars == <<composed, codec, dashboardVars>>

vars == <<serviceVars, otherVars>>

-----------------------------------------------------------------------------
(* Bounds of the model *)

MaxRawLen == 2       \* longest arbitrary token sequence tried as a reply
MaxDatasets == 3     \* most uploaded_csv_data rows handed to prepareDataContext
MaxSelection == 2    \* longest selectedDatasets list

-----------------------------------------------------------------------------
(* Tokens *)

LB == "{"
RB == "}"
LK == "["
RK == "]"
Q == "\""
COLON == ":"
COMMA == ","
SP == " "
NL == "\n"
FENCE == "<fence>"    \* the three-backtick markdown fence

WhiteSpace == {SP, NL}
Digits == {"0", "7"}

Seqs(S, n) == UNION {[1..m -> S] : m \in 0..n}

IsPrefix(p, s) == Len(p) <= Len(s) /\ SubSeq(s, 1, Len(p)) = p

\* concatenation of a list of texts
RECURSIVE Concat(_)
Concat(ss) == IF ss = <<>> THEN <<>> ELSE Head(ss) \o Concat(Tail(ss))

\* Array.prototype.join
RECURSIVE Join(_, _)
Join(ss, sep) ==
    IF Len(ss) <= 1 THEN Concat(ss) ELSE Head(ss) \o sep \o Join(Tail(ss), sep)

\* index of the first token at or after i that is not white space
RECURSIVE SkipWs(_, _)
SkipWs(ts, i) ==
    IF i <= Len(ts) /\ ts[i] \in WhiteSpace THEN SkipWs(ts, i + 1) ELSE i

\* index of the last token at or before i that is not white space
RECURSIVE SkipWsBack(_, _)
SkipWsBack(ts, i) ==
    IF i >= 1 /\ ts[i] \in WhiteSpace THEN SkipWsBack(ts, i - 1) ELSE i

\* String.prototype.trim
Trim(ts) == SubSeq(ts, SkipWs(ts, 1), SkipWsBack(ts, Len(ts)))

-----------------------------------------------------------------------------
(* JSON values *)

Undefined == [k |-> "undefined"]
JNull == [k |-> "null"]
JBool(b) == [k |-> "bool", b |-> b]
JNum(d) == [k |-> "num", d |-> d]
JStr(s) == [k |-> "str", s |-> s]
JArr(items) == [k |-> "arr", items |-> items]
JObj(fields) == [k |-> "obj", fields |-> fields]
Field(key, val) == [key |-> key, val |-> val]

\* JavaScript truthiness, as used by `a || b` and `if (a && b)`
Truthy(v) ==
    CASE v.k \in {"undefined", "null"} -> FALSE
      [] v.k = "bool" -> v.b
      [] v.k = "num" -> v.d # <<"0">>
      [] v.k = "str" -> v.s # <<>>
      [] OTHER -> TRUE

Or(a, b) == IF Truthy(a) THEN a ELSE b

\* property read `v.name`; JSON.parse keeps the last of duplicate keys
HasField(v, name) ==
    v.k = "obj" /\ \E i \in 1..Len(v.fields) : v.fields[i].key = name

Get(v, name) ==
    IF HasField(v, name)
    THEN LET i == CHOOSE i \in 1..Len(v.fields) :
                    /\ v.fields[i].key = name
                    /\ \A j \in (i+1)..Len(v.fields) : v.fields[j].key # name
         IN v.fields[i].val
    ELSE Undefined

-----------------------------------------------------------------------------
(* JSON.parse *)

ParseFail == [ok |-> FALSE, val |-> Undefined, next |-> 0]
ParseOk(v, n) == [ok |-> TRUE, val |-> v, next |-> n]

\* index of the first quote at or after i, or Len(ts)+1
RECURSIVE FindQuote(_, _)
FindQuote(ts, i) ==
    IF i <= Len(ts) /\ ts[i] # Q THEN FindQuote(ts, i + 1) ELSE i

\* a string literal opening at ts[i] = Q; a raw line break inside is an error
ScanString(ts, i) ==
    LET j == FindQuote(ts, i + 1)
        body == SubSeq(ts, i + 1, j - 1)
    IN IF j > Len(ts) \/ \E n \in 1..Len(body) : body[n] = NL
       THEN ParseFail
       ELSE ParseOk(JStr(body), j + 1)

RECURSIVE DigitsEnd(_, _)
DigitsEnd(ts, i) ==
    IF i <= Len(ts) /\ ts[i] \in Digits THEN DigitsEnd(ts, i + 1) ELSE i

\* a number opening at ts[i]: no leading zero
ScanNumber(ts, i) ==
    LET j == DigitsEnd(ts, i)
        d == SubSeq(ts, i, j - 1)
    IN IF Len(d) > 1 /\ d[1] = "0" THEN ParseFail ELSE ParseOk(JNum(d), j)

RECURSIVE ParseValue(_, _), ParseElements(_, _, _), ParseMembers(_, _, _)
ParseValue(ts, i) ==
    LET j == SkipWs(ts, i)
    IN IF j > Len(ts) THEN ParseFail
       ELSE CASE ts[j] = "null" -> ParseOk(JNull, j + 1)
              [] ts[j] = "true" -> ParseOk(JBool(TRUE), j + 1)
              [] ts[j] = "false" -> ParseOk(JBool(FALSE), j + 1)
              [] ts[j] \in Digits -> ScanNumber(ts, j)
              [] ts[j] = Q -> ScanString(ts, j)
              [] ts[j] = LK ->
                   LET n == SkipWs(ts, j + 1)
                   IN IF n <= Len(ts) /\ ts[n] = RK
                      THEN ParseOk(JArr(<<>>), n + 1)
                      ELSE ParseElements(ts, j + 1, <<>>)
              [] ts[j] = LB ->
                   LET n == SkipWs(ts, j + 1)
                   IN IF n <= Len(ts) /\ ts[n] = RB
                      THEN ParseOk(JObj(<<>>), n + 1)
                      ELSE ParseMembers(ts, j + 1, <<>>)
              [] OTHER -> ParseFail

ParseElements(ts, i, acc) ==
    LET r == ParseValue(ts, i)
        j == SkipWs(ts, r.next)
    IN IF ~r.ok \/ j > Len(ts) THEN ParseFail
       ELSE CASE ts[j] = COMMA -> ParseElements(ts, j + 1, Append(acc, r.val))
              [] ts[j] = RK -> ParseOk(JArr(Append(acc, r.val)), j + 1)
              [] OTHER -> ParseFail

ParseMembers(ts, i, acc) ==
    LET j == SkipWs(ts, i)
        key == IF j <= Len(ts) /\ ts[j] = Q THEN ScanString(ts, j) ELSE ParseFail
        c == SkipWs(ts, key.next)
        r == IF key.ok /\ c <= Len(ts) /\ ts[c] = COLON
             THEN ParseValue(ts, c + 1) ELSE ParseFail
        e == SkipWs(ts, r.next)
    IN IF ~r.ok \/ e > Len(ts) THEN ParseFail
       ELSE LET fs == Append(acc, Field(key.val.s, r.val))
            IN CASE ts[e] = COMMA -> ParseMembers(ts, e + 1, fs)
                 [] ts[e] = RB -> ParseOk(JObj(fs), e + 1)
                 [] OTHER -> ParseFail

\* JSON.parse(text): ok = FALSE stands for the SyntaxError it throws
JSONParse(ts) ==
    LET r == ParseValue(ts, 1)
    IN IF r.ok /\ SkipWs(ts, r.next) > Len(ts) THEN r ELSE ParseFail


-----------------------------------------------------------------------------
(* AIService.parseAIResponse *)

MESSAGE == <<"message">>
REFORMULATED_QUERY == <<"reformulated_query">>
INSIGHTS == <<"insights">>
METRICS == <<"metrics">>
RECOMMENDATIONS == <<"recommendations">>

\* an AIResponse object literal; a key the literal leaves out is Undefined
AIResponse(m, q, i, me, r) ==
    [message |-> m, reformulated_query |-> q, insights |-> i,
     metrics |-> me, recommendations |-> r]

Return(v) == [threw |-> FALSE, value |-> v]
Throw == [threw |-> TRUE, value |-> Undefined]

\* cleanResponse.startsWith(...) and the two replace() calls
StripOpen(clean) ==
    IF IsPrefix(<<FENCE, "json">>, clean)
    THEN SubSeq(clean, SkipWs(clean, 3), Len(clean))
    ELSE IF IsPrefix(<<FENCE>>, clean)
         THEN SubSeq(clean, SkipWs(clean, 2), Len(clean))
         ELSE clean

\* .replace(/\s*```$/, '')
StripClose(t) ==
    IF Len(t) > 0 /\ t[Len(t)] = FENCE
    THEN SubSeq(t, 1, SkipWsBack(t, Len(t) - 1))
    ELSE t

StripFence(clean) ==
    IF IsPrefix(<<FENCE>>, clean) THEN StripClose(StripOpen(clean)) ELSE clean

\* mutant of MapFull: insights and recommendations exchanged
MapFull_ListsExchanged(parsed) ==
    AIResponse(Get(parsed, MESSAGE),
               Get(parsed, REFORMULATED_QUERY),
               Or(Get(parsed, RECOMMENDATIONS), JArr(<<>>)),
               Or(Get(parsed, METRICS), JObj(<<>>)),
               Or(Get(parsed, INSIGHTS), JArr(<<>>)))

\* the object literal of the branch taken when message and reformulated_query
\* are both truthy
MapFull(parsed) ==
    AIResponse(Get(parsed, MESSAGE),
               Get(parsed, REFORMULATED_QUERY),
               Or(Get(parsed, INSIGHTS), JArr(<<>>)),
               Or(Get(parsed, METRICS), JObj(<<>>)),
               Or(Get(parsed, RECOMMENDATIONS), JArr(<<>>)))

\* mutant of MapFields: message without the `|| aiResponse` fallback
MapFields_NoRawFallback(parsed, raw) ==
    AIResponse(Get(parsed, MESSAGE),
               Get(parsed, REFORMULATED_QUERY),
               Or(Get(parsed, INSIGHTS), JArr(<<>>)),
               Or(Get(parsed, METRICS), JObj(<<>>)),
               Or(Get(parsed, RECOMMENDATIONS), JArr(<<>>)))

\* mutant of MapFields: missing insights default to the sentinel insight
MapFields_SentinelDefault(parsed, raw) ==
    AIResponse(Or(Get(parsed, MESSAGE), JStr(raw)),
               Get(parsed, REFORMULATED_QUERY),
               Or(Get(parsed, INSIGHTS), JArr(<<JStr(<<"Analysis completed">>)>>)),
               Or(Get(parsed, METRICS), JObj(<<>>)),
               Or(Get(parsed, RECOMMENDATIONS), JArr(<<>>)))

\* the object literal of the else branch and of the extraction branch
MapFields(parsed, raw) ==
    AIResponse(Or(Get(parsed, MESSAGE), JStr(raw)),
               Get(parsed, REFORMULATED_QUERY),
               Or(Get(parsed, INSIGHTS), JArr(<<>>)),
               Or(Get(parsed, METRICS), JObj(<<>>)),
               Or(Get(parsed, RECOMMENDATIONS), JArr(<<>>)))

\* mutant of PlainMessage: the trimmed text instead of the raw text
PlainMessage_Trimmed(raw) ==
    AIResponse(JStr(Trim(raw)), Undefined,
               JArr(<<JStr(<<"Analysis completed">>)>>), Undefined, Undefined)

\* { message: aiResponse, insights: ['Analysis completed'] }
PlainMessage(raw) ==
    AIResponse(JStr(raw), Undefined, JArr(<<JStr(<<"Analysis completed">>)>>),
               Undefined, Undefined)

\* reading a property of null throws a TypeError
ReadThrows(parsed) == parsed.k \in {"null", "undefined"}

\* the try block: clean, JSON.parse, map
TryBlock(raw) ==
    LET p == JSONParse(StripFence(Trim(raw)))
    IN IF ~p.ok \/ ReadThrows(p.val) THEN Throw
       ELSE IF Truthy(Get(p.val, MESSAGE)) /\ Truthy(Get(p.val, REFORMULATED_QUERY))
            THEN Return(MapFull(p.val))
            ELSE Return(MapFields(p.val, raw))

\* mutant of BraceMatch: a lazy quantifier, from the first "{" to the first "}"
BraceMatch_Lazy(raw) ==
    LET opens == {i \in 1..Len(raw) : raw[i] = LB}
        first == CHOOSE i \in opens : \A j \in opens : i <= j
        closes == {i \in 1..Len(raw) : raw[i] = RB /\ i > first}
        last == CHOOSE i \in closes : \A j \in closes : i <= j
    IN IF opens = {} \/ closes = {}
       THEN [found |-> FALSE, text |-> <<>>]
       ELSE [found |-> TRUE, text |-> SubSeq(raw, first, last)]

\* aiResponse.match(/\{[\s\S]*\}/): from the first "{" to the last "}" after it
BraceMatch(raw) ==
    LET opens == {i \in 1..Len(raw) : raw[i] = LB}
        first == CHOOSE i \in opens : \A j \in opens : i <= j
        closes == {i \in 1..Len(raw) : raw[i] = RB /\ i > first}
        last == CHOOSE i \in closes : \A j \in closes : j <= i
    IN IF opens = {} \/ closes = {}
       THEN [found |-> FALSE, text |-> <<>>]
       ELSE [found |-> TRUE, text |-> SubSeq(raw, first, last)]

\* the catch block: extract a brace span from the raw text and parse it
CatchBlock(raw) ==
    LET m == BraceMatch(raw)
        p == JSONParse(m.text)
    IN IF m.found /\ p.ok /\ ~ReadThrows(p.val)
       THEN Return(MapFields(p.val, raw))
       ELSE Return(PlainMessage(raw))

parseAIResponse(raw) ==
    LET t == TryBlock(raw) IN IF t.threw THEN CatchBlock(raw) ELSE t


-----------------------------------------------------------------------------
(* Storage: data_sources rows with their embedded uploaded_csv_data rows *)

Cell(col, val) == [col |-> col, val |-> val]
\* data_json is a jsonb column: json names the kind of value the row holds,
\* data_json its elements when that is an array
CsvRow(id, filename, records) ==
    [id |-> id, original_filename |-> filename, json |-> "array",
     data_json |-> records]
Source(id, user, name, type, uploads) ==
    [id |-> id, user_id |-> user, name |-> name, type |-> type,
     uploaded_csv_data |-> uploads]

SalesRecord(name, sales) == <<Cell("name", name), Cell("sales", sales)>>

SalesCsv ==
    CsvRow("c1", "sales.csv",
           <<SalesRecord("Ana", "10"), SalesRecord("Bob", "20"),
             SalesRecord("Cy", "30"), SalesRecord("Di", "40")>>)
CostsCsv == CsvRow("c2", "costs.csv", <<<<Cell("item", "rent")>>>>)
OtherCsv == CsvRow("c3", "other.csv", <<SalesRecord("Eve", "50")>>)
EmptyCsv == CsvRow("c4", "empty.csv", <<>>)
\* a file whose header is id,100: a column named by a number
RanksCsv ==
    CsvRow("c5", "ranks.csv",
           <<<<Cell("id", "a"), Cell("100", "b")>>, <<Cell("id", "c"), Cell("100", "d")>>>>)

\* a row whose data_json is a JSON object, not an array; handleUploadCSV
\* writes arrays, the column takes any JSON value
ObjectCsv == [CsvRow("c6", "object.csv", <<>>) EXCEPT !.json = "object"]

\* handleUploadCSV writes one csv source with one upload (none when the
\* upload insert failed); handleConnectBI writes a powerbi source
AllSources ==
    <<Source("ds1", "u1", "Sales", "csv", <<SalesCsv>>),
      Source("ds2", "u1", "Costs", "csv", <<CostsCsv>>),
      Source("ds3", "u2", "Other", "csv", <<OtherCsv>>),
      Source("ds4", "u1", "Broken", "csv", <<>>),
      Source("ds5", "u1", "BI", "powerbi", <<>>),
      Source("ds6", "u1", "Object", "csv", <<ObjectCsv>>)>>

SourceIds == {AllSources[i].id : i \in 1..Len(AllSources)}

Tables ==
    {SelectSeq(AllSources, LAMBDA r : r.id \in S) : S \in SUBSET SourceIds}

Users == {"u1", "u2"}

\* selectedDatasets?: string[]
Absent == [present |-> FALSE, ids |-> <<>>]
Selected(ids) == [present |-> TRUE, ids |-> ids]
Selections ==
    {Absent} \cup {Selected(ids) : ids \in Seqs({"all", "ds1", "ds3"}, MaxSelection)}

Includes(ids, x) == \E i \in 1..Len(ids) : ids[i] = x

NoQuery == [issued |-> FALSE, user_id |-> "none", type |-> "none",
            restricted |-> FALSE, ids |-> <<>>]

\* mutant of RestrictToSelection: the 'all' sentinel is not looked for
RestrictToSelection_IgnoresAll(sel) == sel.present /\ Len(sel.ids) > 0

\* selectedDatasets && selectedDatasets.length > 0 && !selectedDatasets.includes('all')
RestrictToSelection(sel) ==
    sel.present /\ Len(sel.ids) > 0 /\ ~Includes(sel.ids, "all")

\* .from('data_sources').select(...).eq('user_id', userId).eq('type', 'csv')
\* and, when restricted, .in('id', selectedDatasets)
BuildQuery(user, sel) ==
    [issued |-> TRUE, user_id |-> user, type |-> "csv",
     restricted |-> RestrictToSelection(sel),
     ids |-> IF RestrictToSelection(sel) THEN sel.ids ELSE <<>>]

\* mutant of RunQuery: the query has no .eq('user_id', userId)
RunQuery_IgnoresOwner(q, table) ==
    SelectSeq(table, LAMBDA r :
        /\ r.type = q.type
        /\ q.restricted => Includes(q.ids, r.id))

\* the rows the storage collaborator answers a query with
RunQuery(q, table) ==
    SelectSeq(table, LAMBDA r :
        /\ r.user_id = q.user_id
        /\ r.type = q.type
        /\ q.restricted => Includes(q.ids, r.id))

\* dataSources?.flatMap(ds => ds.uploaded_csv_data) || []
FlatMapUploads(rows) == Concat([i \in 1..Len(rows) |-> rows[i].uploaded_csv_data])

-----------------------------------------------------------------------------
(* AIService.prepareDataContext *)

SampleSize == 3

\* the property names that are array indices: canonical numerals
MaxColumnIndex == 100
IndexNames == [n \in 0..MaxColumnIndex |-> ToString(n)]
IsArrayIndex(name) == \E n \in 0..MaxColumnIndex : IndexNames[n] = name
IndexOf(name) == CHOOSE n \in 0..MaxColumnIndex : IndexNames[n] = name

\* the own enumerable properties of an object in the order Object.keys and
\* JSON.stringify visit them: array indices ascending, then the other names
\* in the order they were added
OwnProperties(rec) ==
    SortSeq(SelectSeq(rec, LAMBDA c : IsArrayIndex(c.col)),
            LAMBDA a, b : IndexOf(a.col) < IndexOf(b.col))
    \o SelectSeq(rec, LAMBDA c : ~IsArrayIndex(c.col))

NoDataSentinel == <<"No CSV data available for analysis.">>

\* JSON.stringify(sampleData, null, 2) of an array of flat records
StringifyRecord(rec) ==
    IF rec = <<>> THEN <<SP, SP, LB, RB>>
    ELSE <<SP, SP, LB, NL>>
         \o Join([i \in 1..Len(rec) |->
                    <<SP, SP, SP, SP, Q, OwnProperties(rec)[i].col, Q, COLON, SP,
                      Q, OwnProperties(rec)[i].val, Q>>],
                 <<COMMA, NL>>)
         \o <<NL, SP, SP, RB>>

Stringify(records) ==
    IF records = <<>> THEN <<LK, RK>>
    ELSE <<LK, NL>>
         \o Join([i \in 1..Len(records) |-> StringifyRecord(records[i])],
                 <<COMMA, NL>>)
         \o <<NL, RK>>

\* data.data_json?.slice(0, 3) || []
SampleOf(data) ==
    SubSeq(data.data_json, 1,
           IF Len(data.data_json) < SampleSize THEN Len(data.data_json) ELSE SampleSize)

\* Object.keys(sampleData[0] || {})
ColumnsOf(sample) ==
    IF sample = <<>> THEN <<>>
    ELSE [i \in 1..Len(sample[1]) |-> OwnProperties(sample[1])[i].col]

\* mutant of DatasetSection: the header carries the 0-based index
DatasetSection_ZeroBased(data, index) ==
    <<NL, "Dataset", SP, ToString(index), COLON, SP, data.original_filename, NL>>
    \o <<"Columns", COLON, SP>>
    \o Join([i \in 1..Len(ColumnsOf(SampleOf(data))) |->
               <<ColumnsOf(SampleOf(data))[i]>>], <<COMMA, SP>>)
    \o <<NL, "Sample data", COLON, NL>> \o Stringify(SampleOf(data)) \o <<NL>>

\* the body of the forEach callback; index counts from 0
DatasetSection(data, index) ==
    <<NL, "Dataset", SP, ToString(index + 1), COLON, SP, data.original_filename, NL>>
    \o <<"Columns", COLON, SP>>
    \o Join([i \in 1..Len(ColumnsOf(SampleOf(data))) |->
               <<ColumnsOf(SampleOf(data))[i]>>], <<COMMA, SP>>)
    \o <<NL, "Sample data", COLON, NL>> \o Stringify(SampleOf(data)) \o <<NL>>

\* mutant of SamplingThrows: nothing is thrown for a data_json without slice
SamplingThrows_Never(csv) == FALSE

\* data.data_json?.slice(0, 3) throws a TypeError for a value that is neither
\* nullish nor has a slice method, which ends forEach and prepareDataContext
SamplingThrows(csv) == \E i \in 1..Len(csv) : csv[i].json = "object"

\* mutant of prepareDataContext: no uploads give the empty string
prepareDataContext_EmptyForNone(csv) ==
    IF Len(csv) = 0 THEN <<>>
    ELSE <<"Available data sources", COLON, NL>>
         \o Concat([i \in 1..Len(csv) |-> DatasetSection(csv[i], i - 1)])

prepareDataContext(csv) ==
    IF Len(csv) = 0 THEN NoDataSentinel
    ELSE <<"Available data sources", COLON, NL>>
         \o Concat([i \in 1..Len(csv) |-> DatasetSection(csv[i], i - 1)])

-----------------------------------------------------------------------------
(* AIService.createAnalysisPrompt *)

\* mutant of DatasetInfo: the note lists the selected identifiers
DatasetInfo_NamesSelection(sel) ==
    IF sel.present /\ Len(sel.ids) > 0
    THEN <<NL, "Selected Datasets: ">> \o sel.ids
    ELSE <<NL, "Note: The user has not selected specific datasets, so analyze all available data.">>

\* the note about the dataset selection
DatasetInfo(sel) ==
    IF sel.present /\ Len(sel.ids) > 0
    THEN <<NL, "Selected Datasets: The user has selected specific datasets for analysis. Focus your analysis on these datasets only.">>
    ELSE <<NL, "Note: The user has not selected specific datasets, so analyze all available data.">>

createAnalysisPrompt(message, context, sel) ==
    <<"You are an expert data analyst. Your role is to: ...", NL, NL,
      "Data Context", COLON, NL>>
    \o context \o DatasetInfo(sel)
    \o <<NL, NL, "User Question", COLON, SP, message, NL, NL,
         "QUERY REFORMULATION GUIDELINES: ... EXAMPLES OF QUERY IMPROVEMENT: ... IMPORTANT INSTRUCTIONS: ... Return ONLY the JSON object ...">>

-----------------------------------------------------------------------------
(* Replies of the model endpoint: the completion text is arbitrary.  The   *)
(* replies tried are every short token sequence, and the JSON object the   *)
(* prompt asks for (with any of its keys missing or falsy), bare or inside *)
(* a code fence or prose.                                                  *)

\* the text a model writes for a JSON value
RECURSIVE Render(_)
Render(v) ==
    CASE v.k = "null" -> <<"null">>
      [] v.k = "bool" -> IF v.b THEN <<"true">> ELSE <<"false">>
      [] v.k = "num" -> v.d
      [] v.k = "str" -> <<Q>> \o v.s \o <<Q>>
      [] v.k = "arr" ->
           <<LK>> \o Join([i \in 1..Len(v.items) |-> Render(v.items[i])],
                          <<COMMA, SP>>) \o <<RK>>
      [] v.k = "obj" ->
           <<LB>> \o Join([i \in 1..Len(v.fields) |->
                              <<Q>> \o v.fields[i].key \o <<Q, COLON, SP>>
                              \o Render(v.fields[i].val)],
                          <<COMMA, NL>>) \o <<RB>>

MessageValues == {Undefined, JStr(<<"ok">>), JStr(<<>>), JNull}
QueryValues == {Undefined, JStr(<<"Q">>)}
InsightValues == {Undefined, JArr(<<JStr(<<"ok">>)>>), JArr(<<>>), JNull}
MetricValues == {Undefined, JObj(<<Field(<<"k">>, JStr(<<"ok">>))>>), JNum(<<"0">>)}
RecommendationValues == {Undefined, JArr(<<JStr(<<"ok">>)>>), JBool(FALSE)}

\* the object with the given values, a key with value Undefined left out
ReplyObject(m, q, i, me, r) ==
    LET all == <<Field(REFORMULATED_QUERY, q), Field(MESSAGE, m),
                 Field(INSIGHTS, i), Field(METRICS, me),
                 Field(RECOMMENDATIONS, r)>>
    IN JObj(SelectSeq(all, LAMBDA f : f.val # Undefined))

ReplyObjects ==
    {ReplyObject(m, q, i, me, r) :
        m \in MessageValues, q \in QueryValues, i \in InsightValues,
        me \in MetricValues, r \in RecommendationValues}

ReplyValues ==
    ReplyObjects \cup {JNull, JNum(<<"7">>), JStr(<<"ok">>), JBool(TRUE),
                       JArr(<<JObj(<<Field(MESSAGE, JStr(<<"ok">>))>>)>>)}

FenceWraps == {"fence_json", "fence_plain", "fence_tag", "fence_json_padded"}
ProseWraps == {"lead", "trail", "both", "trail_brace", "trail_braces", "lead_brace"}
Wraps == {"bare", "padded", "fence_open"} \cup FenceWraps \cup ProseWraps

Wrap(w, body) ==
    CASE w = "bare" -> body
      [] w = "padded" -> <<NL, SP>> \o body \o <<NL>>
      [] w = "fence_json" -> <<FENCE, "json", NL>> \o body \o <<NL, FENCE>>
      [] w = "fence_plain" -> <<FENCE, NL>> \o body \o <<NL, FENCE>>
      [] w = "fence_tag" -> <<FENCE, "js", NL>> \o body \o <<NL, FENCE>>
      [] w = "fence_json_padded" ->
           <<SP, FENCE, "json", SP, NL>> \o body \o <<NL, NL, FENCE, NL>>
      [] w = "fence_open" -> <<FENCE, "json", NL>> \o body
      [] w = "lead" -> <<"hi", COLON, SP>> \o body
      [] w = "trail" -> body \o <<NL, "hi">>
      [] w = "both" -> <<"hi", NL>> \o body \o <<SP, "hi">>
      [] w = "trail_brace" -> body \o <<SP, "hi", RB>>
      [] w = "trail_braces" -> body \o <<SP, LB, "hi", RB>>
      [] w = "lead_brace" -> <<LB, "hi", RB, SP>> \o body

RawAlphabet ==
    {LB, RB, LK, RK, Q, COLON, COMMA, SP, NL, FENCE, "json", "null", "0", "7", "hi"}

RawReplies == Seqs(RawAlphabet, MaxRawLen)

-----------------------------------------------------------------------------
(* Values of the state outside AIService before anything has run *)

\* no message has entered the codec
NoCodec ==
    [pc |-> "none", text |-> <<>>, owner |-> "none", encFault |-> "none",
     stored |-> <<>>, damage |-> "none", reader |-> "none", decFault |-> "none",
     output |-> <<>>, threw |-> FALSE]

\* the surroundings of the page: whether crypto.subtle exists (it does not in
\* an insecure context) and whether the storage service answers without error
Browser(subtle, storage) == [subtle |-> subtle, storage |-> storage]
Working == Browser(TRUE, TRUE)

\* a chat_sessions id; useState<string | null>(null) starts with no session
SessionId(n) == [sid |-> n]
NoSession == SessionId(0)

-----------------------------------------------------------------------------
(* parseAIResponse applied to every reply *)

\* nothing has run yet
Fresh ==
    /\ query = NoQuery /\ csvData = <<>> /\ dataContext = <<>> /\ prompt = <<>>
    /\ fetchCalls = 0 /\ httpCalls = 0 /\ inFlight = 0 /\ httpStatus = "none"
    /\ result = Undefined /\ returnedAt = "none" /\ outcome = "pending"

\* no prompt composed, no message in the codec, the dashboard not mounted
NoDashboard ==
    /\ composed = <<>> /\ codec = NoCodec
    /\ messageBox = <<>> /\ loading = FALSE /\ currentSessionId = NoSession
    /\ messages = <<>> /\ chat_sessions = <<>> /\ chat_history = <<>>
    /\ runs = <<>> /\ loads = <<>> /\ now = 0 /\ browser = Working

\* no analyzeData request is part of the run
NoRequest ==
    /\ apiKey = TRUE /\ data_sources = <<>> /\ userId = "none"
    /\ userMessage = "none" /\ selectedDatasets = Absent

InitParse ==
    /\ Fresh /\ NoRequest /\ NoDashboard
    /\ pc = "parse"
    /\ \/ /\ replyWrap = "raw"
          /\ replyBody = <<>>
          /\ aiResponse \in RawReplies
       \/ /\ replyWrap \in Wraps
          /\ replyBody \in {Render(v) : v \in ReplyValues}
          /\ aiResponse = Wrap(replyWrap, replyBody)

ParseReply ==
    /\ UNCHANGED otherVars
    /\ pc = "parse"
    /\ result' = parseAIResponse(aiResponse).value
    /\ outcome' = IF parseAIResponse(aiResponse).threw THEN "rejected" ELSE "resolved"
    /\ pc' = "parsed"
    /\ returnedAt' = "parseAIResponse"
    /\ UNCHANGED <<apiKey, data_sources, userId, userMessage, selectedDatasets,
                   query, csvData, dataContext, prompt, fetchCalls, httpCalls,
                   inFlight, httpStatus, aiResponse, replyBody, replyWrap>>

NextParse == ParseReply

SpecParse == InitParse /\ [][NextParse]_vars


-----------------------------------------------------------------------------
(* prepareDataContext applied to every list of uploads *)

CsvPool == {SalesCsv, CostsCsv, OtherCsv, EmptyCsv, RanksCsv}

InitContext ==
    /\ NoRequest /\ NoDashboard
    /\ query = NoQuery /\ dataContext = <<>> /\ prompt = <<>>
    /\ fetchCalls = 0 /\ httpCalls = 0 /\ inFlight = 0 /\ httpStatus = "none"
    /\ result = Undefined /\ returnedAt = "none" /\ outcome = "pending"
    /\ pc = "context"
    /\ aiResponse = <<>> /\ replyBody = <<>> /\ replyWrap = "none"
    /\ csvData \in Seqs(CsvPool, MaxDatasets)

PrepareContext ==
    /\ UNCHANGED otherVars
    /\ pc = "context"
    /\ dataContext' = prepareDataContext(csvData)
    /\ pc' = "context_done"
    /\ UNCHANGED <<apiKey, data_sources, userId, userMessage, selectedDatasets,
                   query, csvData, prompt, fetchCalls, httpCalls, inFlight,
                   httpStatus, aiResponse, replyBody, replyWrap, result,
                   returnedAt, outcome>>

NextContext == PrepareContext

SpecContext == InitContext /\ [][NextContext]_vars

-----------------------------------------------------------------------------
(* AIService.analyzeData, fallbackAnalysis and callAI: one request *)

ApologyText ==
    "I'm having trouble analyzing your data right now. Please check your API configuration and try again."

\* the object literal fallbackAnalysis returns from its catch block
ApologyResult ==
    AIResponse(JStr(<<ApologyText>>), Undefined,
               JArr(<<JStr(<<"Error occurred during analysis">>)>>),
               Undefined, Undefined)

\* new Error('OpenAI API key not configured')
ConfigurationError == [error |-> "OpenAI API key not configured"]

\* mutant of FallbackCatch: the catch block rethrows, as analyzeData's does
FallbackCatch_Rethrows == [outcome |-> "rejected", result |-> [error |-> "rethrown"]]

\* what the catch block of fallbackAnalysis settles the request with
FallbackCatch == [outcome |-> "resolved", result |-> ApologyResult]

\* mutant of KeyConfigured: the guard of analyzeData is gone
KeyConfigured_Unchecked == TRUE

\* the guard `if (!this.apiKey) throw` of analyzeData
KeyConfigured == apiKey

\* the same guard at the head of callAI
CallAIKeyConfigured == apiKey

OkStatuses == {"200"}
ErrorStatuses == {"401", "500"}

\* the completion texts tried in a full request
FullReply ==
    Render(ReplyObject(JStr(<<"ok">>), JStr(<<"Q">>), JArr(<<JStr(<<"ok">>)>>),
                       JObj(<<Field(<<"k">>, JStr(<<"ok">>))>>),
                       JArr(<<JStr(<<"ok">>)>>)))

RequestReplies ==
    {<<>>, <<"hi">>, <<"null">>, FullReply, Wrap("fence_json", FullReply),
     Wrap("trail_brace", FullReply)}

Init ==
    /\ Fresh /\ NoDashboard
    /\ pc = "idle"
    /\ apiKey \in BOOLEAN
    /\ data_sources \in Tables
    /\ userId \in Users
    /\ userMessage = "who sold most"
    /\ selectedDatasets \in Selections
    /\ aiResponse = <<>> /\ replyBody = <<>> /\ replyWrap = "none"

\* settle the request from the catch block of fallbackAnalysis
SettleInCatch ==
    /\ result' = FallbackCatch.result
    /\ outcome' = FallbackCatch.outcome
    /\ returnedAt' = "catch"
    /\ pc' = "done"

\* analyzeData is called: the key guard, then the storage query is issued
AnalyzeData ==
    /\ UNCHANGED otherVars
    /\ pc = "idle"
    /\ IF KeyConfigured
       THEN /\ query' = BuildQuery(userId, selectedDatasets)
            /\ fetchCalls' = fetchCalls + 1
            /\ pc' = "fetching_data"
            /\ UNCHANGED <<result, outcome, returnedAt>>
       ELSE /\ result' = ConfigurationError
            /\ outcome' = "rejected"
            /\ returnedAt' = "analyzeData"
            /\ pc' = "done"
            /\ UNCHANGED <<query, fetchCalls>>
    /\ UNCHANGED <<apiKey, data_sources, userId, userMessage, selectedDatasets,
                   csvData, dataContext, prompt, httpCalls, inFlight, httpStatus,
                   aiResponse, replyBody, replyWrap>>

\* the storage query answers with an error: `if (sourcesError) throw`
StorageFails ==
    /\ UNCHANGED otherVars
    /\ pc = "fetching_data"
    /\ SettleInCatch
    /\ UNCHANGED <<apiKey, data_sources, userId, userMessage, selectedDatasets,
                   query, csvData, dataContext, prompt, fetchCalls, httpCalls,
                   inFlight, httpStatus, aiResponse, replyBody, replyWrap>>

\* the storage query answers with rows: context, prompt, then callAI issues
\* its fetch(); a throw of prepareDataContext lands in the catch block
StorageReturns ==
    /\ UNCHANGED otherVars
    /\ pc = "fetching_data"
    /\ csvData' = FlatMapUploads(RunQuery(query, data_sources))
    /\ IF SamplingThrows(csvData')
       THEN /\ SettleInCatch
            /\ UNCHANGED <<dataContext, prompt, httpCalls, inFlight>>
       ELSE /\ dataContext' = prepareDataContext(csvData')
            /\ prompt' = createAnalysisPrompt(userMessage, dataContext',
                                              selectedDatasets)
            /\ IF CallAIKeyConfigured
               THEN /\ httpCalls' = httpCalls + 1
                    /\ inFlight' = inFlight + 1
                    /\ pc' = "awaiting_model"
                    /\ UNCHANGED <<result, outcome, returnedAt>>
               ELSE /\ SettleInCatch
                    /\ UNCHANGED <<httpCalls, inFlight>>
    /\ UNCHANGED <<apiKey, data_sources, userId, userMessage, selectedDatasets,
                   query, fetchCalls, httpStatus, aiResponse, replyBody, replyWrap>>

\* mutant of ModelRejects: the call is issued again after a network failure
ModelRejects_Retries ==
    /\ UNCHANGED otherVars
    /\ pc = "awaiting_model"
    /\ httpStatus' = "network_error"
    /\ httpCalls' = httpCalls + 1
    /\ UNCHANGED <<apiKey, data_sources, pc, userId, userMessage, selectedDatasets,
                   query, csvData, dataContext, prompt, fetchCalls, inFlight,
                   aiResponse, replyBody, replyWrap, result, returnedAt, outcome>>

\* fetch() rejects (network failure)
ModelRejects ==
    /\ UNCHANGED otherVars
    /\ pc = "awaiting_model"
    /\ httpStatus' = "network_error"
    /\ inFlight' = inFlight - 1
    /\ SettleInCatch
    /\ UNCHANGED <<apiKey, data_sources, userId, userMessage, selectedDatasets,
                   query, csvData, dataContext, prompt, fetchCalls, httpCalls,
                   aiResponse, replyBody, replyWrap>>

\* fetch() resolves with a response; its body is read next
ModelResponds ==
    /\ UNCHANGED otherVars
    /\ pc = "awaiting_model"
    /\ httpStatus' \in OkStatuses \cup ErrorStatuses
    /\ pc' = "reading_body"
    /\ UNCHANGED <<apiKey, data_sources, userId, userMessage, selectedDatasets,
                   query, csvData, dataContext, prompt, fetchCalls, httpCalls,
                   inFlight, aiResponse, replyBody, replyWrap, result,
                   returnedAt, outcome>>

\* !response.ok: response.text() settles, then `throw new Error('AI API error')`
ErrorBodyRead ==
    /\ UNCHANGED otherVars
    /\ pc = "reading_body"
    /\ httpStatus \in ErrorStatuses
    /\ inFlight' = inFlight - 1
    /\ SettleInCatch
    /\ UNCHANGED <<apiKey, data_sources, userId, userMessage, selectedDatasets,
                   query, csvData, dataContext, prompt, fetchCalls, httpCalls,
                   httpStatus, aiResponse, replyBody, replyWrap>>

\* response.json() rejects, or the body has no choices array to index
JsonBodyFails ==
    /\ UNCHANGED otherVars
    /\ pc = "reading_body"
    /\ httpStatus \in OkStatuses
    /\ inFlight' = inFlight - 1
    /\ SettleInCatch
    /\ UNCHANGED <<apiKey, data_sources, userId, userMessage, selectedDatasets,
                   query, csvData, dataContext, prompt, fetchCalls, httpCalls,
                   httpStatus, aiResponse, replyBody, replyWrap>>

\* response.json() resolves: data.choices[0]?.message?.content || '' is parsed
JsonBodyRead ==
    /\ UNCHANGED otherVars
    /\ pc = "reading_body"
    /\ httpStatus \in OkStatuses
    /\ inFlight' = inFlight - 1
    /\ \E content \in RequestReplies :
          /\ aiResponse' = content
          /\ IF parseAIResponse(content).threw
             THEN SettleInCatch
             ELSE /\ result' = parseAIResponse(content).value
                  /\ outcome' = "resolved"
                  /\ returnedAt' = "parseAIResponse"
                  /\ pc' = "done"
    /\ UNCHANGED <<apiKey, data_sources, userId, userMessage, selectedDatasets,
                   query, csvData, dataContext, prompt, fetchCalls, httpCalls,
                   httpStatus, replyBody, replyWrap>>

Next ==
    \/ AnalyzeData
    \/ StorageFails
    \/ StorageReturns
    \/ ModelRejects
    \/ ModelResponds
    \/ ErrorBodyRead
    \/ JsonBodyFails
    \/ JsonBodyRead

Spec == Init /\ [][Next]_vars

-----------------------------------------------------------------------------
(* Claims about parseAIResponse *)

\* a state in which parseAIResponse has returned or thrown
Parsed == pc \in {"parsed", "done"} /\ returnedAt = "parseAIResponse"

\* the strict parse of the cleaned text, and the parse of the extracted span
StrictParse == JSONParse(StripFence(Trim(aiResponse)))
SpanParse ==
    LET m == BraceMatch(aiResponse)
    IN IF m.found THEN JSONParse(m.text) ELSE ParseFail

SentinelInsights == JArr(<<JStr(<<"Analysis completed">>)>>)

\* the value of a key, or a default when the object has no such key
ValueOrDefault(v, name, default) ==
    IF HasField(v, name) THEN Get(v, name) ELSE default

\* the value of a key, or a default when the key is missing or its value falsy
TruthyOrDefault(v, name, default) ==
    IF Truthy(Get(v, name)) THEN Get(v, name) ELSE default

\* C1: parseAIResponse is total: for every reply text it returns (never throws)
\* a result whose message is neither undefined nor null.
C1_ParserIsTotal ==
    Parsed =>
        /\ outcome = "resolved"
        /\ result # Undefined
        /\ result.message.k \notin {"undefined", "null"}

\* the reply is the JSON value null: JSON.parse succeeds, the property read throws
C1_Witness ==
    /\ Parsed
    /\ aiResponse = <<"null">>
    /\ TryBlock(aiResponse).threw
    /\ outcome = "resolved"

\* C2: when neither the strict parse of the cleaned text nor the parse of the
\* extracted brace span succeeds, the result is the raw text as message, the
\* one sentinel insight, and nothing else.
C2_PlainFallback ==
    (Parsed /\ ~StrictParse.ok /\ ~SpanParse.ok) =>
        /\ result.message = JStr(aiResponse)
        /\ result.insights = SentinelInsights
        /\ result.reformulated_query = Undefined
        /\ result.metrics = Undefined
        /\ result.recommendations = Undefined

\* a brace span was extracted from an object followed by prose and did not parse
C2_Witness ==
    /\ pc = "parsed"
    /\ replyWrap = "trail_brace"
    /\ ~StrictParse.ok
    /\ BraceMatch(aiResponse).found
    /\ ~SpanParse.ok
    /\ result.message = JStr(aiResponse)
    /\ result.insights = SentinelInsights

\* C3 as stated: when the cleaned text parses as an object that has a message
\* field, message and reformulated_query are the parsed values and insights,
\* recommendations and metrics are the parsed values or, when missing, empty.
C3_AsStated ==
    (Parsed /\ StrictParse.ok /\ HasField(StrictParse.val, MESSAGE)) =>
        LET v == StrictParse.val
        IN /\ result.message = Get(v, MESSAGE)
           /\ result.reformulated_query = Get(v, REFORMULATED_QUERY)
           /\ result.insights = ValueOrDefault(v, INSIGHTS, JArr(<<>>))
           /\ result.recommendations = ValueOrDefault(v, RECOMMENDATIONS, JArr(<<>>))
           /\ result.metrics = ValueOrDefault(v, METRICS, JObj(<<>>))

\* C3 amended: when the cleaned text parses as an object whose message is
\* truthy, message and reformulated_query are the parsed values and insights,
\* recommendations and metrics are the parsed values or, when missing or
\* falsy (null, false, 0, ""), empty.
C3_DirectMapping ==
    (Parsed /\ StrictParse.ok /\ Truthy(Get(StrictParse.val, MESSAGE))) =>
        LET v == StrictParse.val
        IN /\ result.message = Get(v, MESSAGE)
           /\ result.reformulated_query = Get(v, REFORMULATED_QUERY)
           /\ result.insights = TruthyOrDefault(v, INSIGHTS, JArr(<<>>))
           /\ result.recommendations = TruthyOrDefault(v, RECOMMENDATIONS, JArr(<<>>))
           /\ result.metrics = TruthyOrDefault(v, METRICS, JObj(<<>>))

\* a fenced reply with all five fields present and truthy came back as sent
C3_Witness ==
    /\ pc = "parsed"
    /\ replyWrap = "fence_json"
    /\ StrictParse.ok
    /\ \A name \in {MESSAGE, REFORMULATED_QUERY, INSIGHTS, METRICS, RECOMMENDATIONS} :
          Truthy(Get(StrictParse.val, name))
    /\ result.message = JStr(<<"ok">>)
    /\ result.insights = JArr(<<JStr(<<"ok">>)>>)

\* the reply is a JSON object text with a message field inside a code fence
FencedObject ==
    /\ replyWrap \in FenceWraps
    /\ JSONParse(replyBody).ok
    /\ HasField(JSONParse(replyBody).val, MESSAGE)

\* C4 as stated: for every JSON object text J with a message field, the result
\* for J inside a code fence equals the result for J alone.
C4_AsStated ==
    (Parsed /\ FencedObject) => result = parseAIResponse(replyBody).value

\* C4 amended: for every JSON object text J with a message field, the result
\* for J inside a code fence has the same reformulated_query, insights, metrics
\* and recommendations as the result for J alone, and the same message when
\* J's message is truthy (otherwise each message is its own raw text).
C4_FenceTransparent ==
    (Parsed /\ FencedObject) =>
        LET alone == parseAIResponse(replyBody).value
        IN /\ result.reformulated_query = alone.reformulated_query
           /\ result.insights = alone.insights
           /\ result.metrics = alone.metrics
           /\ result.recommendations = alone.recommendations
           /\ Truthy(Get(JSONParse(replyBody).val, MESSAGE))
                 => result.message = alone.message
           /\ ~Truthy(Get(JSONParse(replyBody).val, MESSAGE))
                 => /\ result.message = JStr(aiResponse)
                    /\ alone.message = JStr(replyBody)

\* an object with a nested metrics object inside a fence with another tag
C4_Witness ==
    /\ pc = "parsed"
    /\ replyWrap = "fence_tag"
    /\ FencedObject
    /\ ~StrictParse.ok
    /\ result.message = JStr(<<"ok">>)
    /\ result.metrics.k = "obj" /\ result.metrics.fields # <<>>

\* the span from the first "{" to its matching "}" (brace depth back to zero)
RECURSIVE MatchingClose(_, _, _)
MatchingClose(ts, i, depth) ==
    IF i > Len(ts) THEN 0
    ELSE IF ts[i] = LB THEN MatchingClose(ts, i + 1, depth + 1)
    ELSE IF ts[i] = RB
         THEN IF depth = 1 THEN i ELSE MatchingClose(ts, i + 1, depth - 1)
         ELSE MatchingClose(ts, i + 1, depth)

MatchingSpan(ts) ==
    LET opens == {i \in 1..Len(ts) : ts[i] = LB}
        first == CHOOSE i \in opens : \A j \in opens : i <= j
        close == MatchingClose(ts, first, 0)
    IN IF opens = {} \/ close = 0
       THEN [found |-> FALSE, text |-> <<>>]
       ELSE [found |-> TRUE, text |-> SubSeq(ts, first, close)]

\* C5: when the strict parse fails and the span from the first "{" to its
\* matching "}" parses as JSON, the result is that value's fields mapped as in
\* the strict case: an object followed by prose is recovered.
C5_MatchingSpanRecovered ==
    (Parsed /\ ~StrictParse.ok /\ MatchingSpan(aiResponse).found
       /\ JSONParse(MatchingSpan(aiResponse).text).ok) =>
        result = MapFields(JSONParse(MatchingSpan(aiResponse).text).val, aiResponse)

-----------------------------------------------------------------------------
(* Claims about analyzeData *)

\* the model call failed: fetch() rejected, or the response was not 2xx
ModelCallFailed ==
    httpStatus = "network_error" \/ httpStatus \in ErrorStatuses

\* C6: with a credential configured, a rejected or non-2xx model call does not
\* reject analyzeData: it resolves with the fixed apology as message and
\* exactly one insight.
C6_FailureGivesApology ==
    (pc = "done" /\ apiKey /\ ModelCallFailed) =>
        /\ outcome = "resolved"
        /\ result.message =
             JStr(<<"I'm having trouble analyzing your data right now. Please check your API configuration and try again.">>)
        /\ result.insights.k = "arr"
        /\ Len(result.insights.items) = 1

\* a non-2xx answer whose body was read, settled with the apology
C6_Witness ==
    /\ pc = "done"
    /\ apiKey
    /\ httpStatus = "500"
    /\ httpCalls = 1
    /\ outcome = "resolved"
    /\ result = ApologyResult

\* C7: without a credential analyzeData fails with the configuration error
\* before anything else: no storage query, no model call, and the error is
\* handed to the caller, not turned into the fallback result.
C7_ConfigErrorFirst ==
    ~apiKey =>
        /\ fetchCalls = 0
        /\ httpCalls = 0
        /\ query = NoQuery
        /\ pc \in {"idle", "done"}
        /\ pc = "done" =>
              /\ outcome = "rejected"
              /\ result = [error |-> "OpenAI API key not configured"]
              /\ returnedAt = "analyzeData"

\* a request made without a credential has been rejected
C7_Witness ==
    /\ ~apiKey
    /\ pc = "done"
    /\ outcome = "rejected"
    /\ data_sources # <<>>
    /\ selectedDatasets.present

\* the three states of the orchestrator
OrchestratorRank ==
    CASE pc = "idle" -> 0
      [] pc = "done" -> 2
      [] OTHER -> 1

\* C8: one analyzeData call moves idle -> awaiting -> done, never back, and
\* issues at most one model call: none after a failed one, never two in flight.
C8_OneModelCall ==
    /\ [](httpCalls <= 1 /\ inFlight <= 1 /\ inFlight <= httpCalls)
    /\ [](pc \in {"awaiting_model", "reading_body"} <=> inFlight = 1)
    /\ [][/\ OrchestratorRank' >= OrchestratorRank
          /\ httpCalls' >= httpCalls
          /\ ModelCallFailed => httpCalls' = httpCalls
          /\ httpCalls' > httpCalls => (pc = "fetching_data" /\ pc' = "awaiting_model")
          /\ pc = "done" => pc' = "done"]_vars

\* the single call was rejected and the request is done with nothing in flight
C8_Witness ==
    /\ pc = "done"
    /\ httpStatus = "network_error"
    /\ httpCalls = 1
    /\ inFlight = 0

\* every upload of every csv source the caller owns, in table order
OwnedUploads ==
    Concat([i \in 1..Len(data_sources) |->
              IF data_sources[i].user_id = userId /\ data_sources[i].type = "csv"
              THEN data_sources[i].uploaded_csv_data ELSE <<>>])

\* the selection names identifiers and no 'all'
SelectionIsSpecific ==
    /\ selectedDatasets.present
    /\ selectedDatasets.ids # <<>>
    /\ \A i \in 1..Len(selectedDatasets.ids) : selectedDatasets.ids[i] # "all"

\* C9: the storage query is restricted to the selected identifiers exactly
\* when the selection is non-empty and has no 'all'; when it is absent, empty
\* or has 'all', every dataset the caller owns is in the context.
C9_SelectionFilter ==
    /\ query.issued =>
          /\ query.restricted <=> SelectionIsSpecific
          /\ query.restricted => query.ids = selectedDatasets.ids
    /\ (httpCalls = 1 /\ ~SelectionIsSpecific) =>
          /\ csvData = OwnedUploads
          /\ dataContext = prepareDataContext(OwnedUploads)

\* a selection that names 'all' next to an identifier fetched both datasets
C9_Witness ==
    /\ httpCalls = 1
    /\ selectedDatasets = Selected(<<"all", "ds1">>)
    /\ ~query.restricted
    /\ Len(csvData) = 2

-----------------------------------------------------------------------------
(* Claims about prepareDataContext *)

\* the positions at which a line of the text starts
LineStarts(ts) == {1} \cup {i + 1 : i \in {j \in 1..Len(ts) : ts[j] = NL}}

\* the last position of the line that starts at s
LineEnd(ts, s) ==
    LET ends == {i \in s..Len(ts) : ts[i] = NL}
    IN IF ends = {} THEN Len(ts)
       ELSE (CHOOSE i \in ends : \A j \in ends : i <= j) - 1

\* the lines that read 'Dataset <n>: ...', in the order of the text
HeaderLines(ts) ==
    LET starts == {s \in LineStarts(ts) :
                      s + 1 <= Len(ts) /\ ts[s] = "Dataset" /\ ts[s + 1] = SP}
        nth(n) == CHOOSE s \in starts : Cardinality({t \in starts : t < s}) = n - 1
    IN [n \in 1..Cardinality(starts) |-> SubSeq(ts, nth(n), LineEnd(ts, nth(n)))]

\* C10: for zero datasets the context is the fixed sentinel; for N >= 1 it has
\* exactly N header lines, the i-th being 'Dataset i: ...' of the i-th dataset.
C10_HeaderLines ==
    pc = "context_done" =>
        IF csvData = <<>>
        THEN dataContext = <<"No CSV data available for analysis.">>
        ELSE /\ Len(HeaderLines(dataContext)) = Len(csvData)
             /\ \A i \in 1..Len(csvData) :
                   HeaderLines(dataContext)[i] =
                       <<"Dataset", SP, ToString(i), COLON, SP,
                         csvData[i].original_filename>>

\* three datasets, the same one twice, gave headers 1, 2, 3
C10_Witness ==
    /\ pc = "context_done"
    /\ Len(csvData) = 3
    /\ csvData[1] = csvData[3]
    /\ Len(HeaderLines(dataContext)) = 3

-----------------------------------------------------------------------------
(* createAnalysisPrompt called twice, on any questions, summaries and      *)
(* selections                                                              *)

Questions == {"who sold most", "total sales"}

\* summaries prepareDataContext produces
Summaries ==
    {NoDataSentinel, prepareDataContext(<<SalesCsv>>),
     prepareDataContext(<<SalesCsv, CostsCsv>>)}

\* one call of createAnalysisPrompt with the string it returned
PromptCall(question, summary, sel) ==
    [userMessage |-> question, dataContext |-> summary, selectedDatasets |-> sel,
     prompt |-> createAnalysisPrompt(question, summary, sel)]

InitPrompt ==
    /\ Fresh /\ NoRequest /\ NoDashboard
    /\ pc = "compose_first"
    /\ aiResponse = <<>> /\ replyBody = <<>> /\ replyWrap = "none"

\* a call of createAnalysisPrompt: it reads its arguments and returns a string
ComposePrompt ==
    /\ pc \in {"compose_first", "compose_second"}
    /\ \E question \in Questions, summary \in Summaries, sel \in Selections :
          composed' = Append(composed, PromptCall(question, summary, sel))
    /\ pc' = IF pc = "compose_first" THEN "compose_second" ELSE "composed"
    /\ UNCHANGED <<apiKey, data_sources, userId, userMessage, selectedDatasets,
                   query, csvData, dataContext, prompt, fetchCalls, httpCalls,
                   inFlight, httpStatus, aiResponse, replyBody, replyWrap, result,
                   returnedAt, outcome>>
    /\ UNCHANGED <<codec, dashboardVars>>

NextPrompt == ComposePrompt

SpecPrompt == InitPrompt /\ [][NextPrompt]_vars

-----------------------------------------------------------------------------
(* Claims about createAnalysisPrompt *)

\* the selection scope the prompt depends on: a non-empty list was passed
SelectionGiven(sel) == sel.present /\ Len(sel.ids) > 0

\* C11 as stated: two calls with the same question and the same summary
\* return the same prompt string
C11_AsStated ==
    \A i \in 1..Len(composed), j \in 1..Len(composed) :
        (/\ composed[i].userMessage = composed[j].userMessage
         /\ composed[i].dataContext = composed[j].dataContext)
        => composed[i].prompt = composed[j].prompt

\* C11: two calls of createAnalysisPrompt with the same question, the same
\* summary and the same selection scope (a non-empty selection passed, or
\* not) return identical prompt strings, and a call issues no storage query
\* and no model call
C11_DeterministicInScope ==
    /\ \A i \in 1..Len(composed), j \in 1..Len(composed) :
          (/\ composed[i].userMessage = composed[j].userMessage
           /\ composed[i].dataContext = composed[j].dataContext
           /\ SelectionGiven(composed[i].selectedDatasets)
                = SelectionGiven(composed[j].selectedDatasets))
          => composed[i].prompt = composed[j].prompt
    /\ composed # <<>> => fetchCalls = 0 /\ httpCalls = 0 /\ query = NoQuery

\* two calls with different non-empty selections returned the same prompt
C11_Witness ==
    /\ Len(composed) = 2
    /\ composed[1].userMessage = composed[2].userMessage
    /\ composed[1].dataContext = composed[2].dataContext
    /\ composed[1].selectedDatasets # composed[2].selectedDatasets
    /\ SelectionGiven(composed[1].selectedDatasets)
    /\ SelectionGiven(composed[2].selectedDatasets)
    /\ composed[1].prompt = composed[2].prompt

-----------------------------------------------------------------------------
(* ChatEncryption: strings, bytes and the primitives of the platform.      *)
(*                                                                         *)
(* A string is the base64 text of a byte array followed by literal UTF-16  *)
(* code units; either part may be empty.  A byte array is a sequence of    *)
(* byte tokens: the byte of a one-byte character, other plain bytes, the   *)
(* bytes of an AES-GCM ciphertext (one per plaintext byte, then the        *)
(* authentication tag), and the ASCII bytes of a base64 text.              *)

IV_LENGTH == 12
SaltLength == 8
MaxTextLen == 2      \* longest message text tried, in code units

Text(bytes, units) == [bytes |-> bytes, units |-> units]
Str(units) == Text(<<>>, units)
B64(bytes) == Text(bytes, <<>>)

\* code units: two characters of the base64 alphabet, a blank, a character
\* outside the alphabet, a high and a low surrogate
B64Chars == {"h", "i"}
CodeUnits == B64Chars \cup {SP, "!", "HS", "LS"}

NoKey == [password |-> <<>>, salt |-> <<>>]
ByteToken(t, v, key, iv, i, data) ==
    [t |-> t, v |-> v, key |-> key, iv |-> iv, i |-> i, data |-> data]
Raw(v) == ByteToken("raw", v, NoKey, <<>>, 0, <<>>)
Ascii(c) == ByteToken("ascii", c, NoKey, <<>>, 0, <<>>)
EncByte(key, iv, i, b) == ByteToken("enc", "", key, iv, i, <<b>>)
Tag(key, iv, data) == ByteToken("tag", "", key, iv, 0, data)
Base64Ascii(bytes) == ByteToken("b64text", "", NoKey, <<>>, 0, bytes)

ReplacementBytes == <<Raw("ef"), Raw("bf"), Raw("bd")>>
PairBytes == <<Raw("f0"), Raw("9f"), Raw("98"), Raw("80")>>

\* the bytes TextEncoder writes for the code unit at position i: a surrogate
\* pair is one 4-byte sequence, an unpaired surrogate becomes U+FFFD
EncodeUnit(units, i) ==
    IF units[i] = "HS"
    THEN IF i < Len(units) /\ units[i + 1] = "LS" THEN PairBytes ELSE ReplacementBytes
    ELSE IF units[i] = "LS"
    THEN IF i > 1 /\ units[i - 1] = "HS" THEN <<>> ELSE ReplacementBytes
    ELSE IF units[i] = "FFFD" THEN ReplacementBytes
    ELSE <<Ascii(units[i])>>

\* new TextEncoder().encode(string)
TextEncode(string) ==
    (IF string.bytes = <<>> THEN <<>> ELSE <<Base64Ascii(string.bytes)>>)
    \o Concat([i \in 1..Len(string.units) |-> EncodeUnit(string.units, i)])

\* new TextDecoder().decode(bytes): never throws, malformed input is replaced
RECURSIVE DecodeUnits(_)
DecodeUnits(bytes) ==
    IF bytes = <<>> THEN <<>>
    ELSE IF Len(bytes) >= 4 /\ SubSeq(bytes, 1, 4) = PairBytes
    THEN <<"HS", "LS">> \o DecodeUnits(SubSeq(bytes, 5, Len(bytes)))
    ELSE IF Len(bytes) >= 3 /\ SubSeq(bytes, 1, 3) = ReplacementBytes
    THEN <<"FFFD">> \o DecodeUnits(SubSeq(bytes, 4, Len(bytes)))
    ELSE IF bytes[1].t = "ascii"
    THEN <<bytes[1].v>> \o DecodeUnits(Tail(bytes))
    ELSE <<"FFFD">> \o DecodeUnits(Tail(bytes))

TextDecode(bytes) ==
    IF bytes # <<>> /\ bytes[1].t = "b64text"
    THEN Text(bytes[1].data, DecodeUnits(Tail(bytes)))
    ELSE Str(DecodeUnits(bytes))

\* what a primitive settles with: a value, or an exception
Settled(value) == [threw |-> FALSE, value |-> value]
Thrown == [threw |-> TRUE, value |-> <<>>]

\* atob(string): ASCII white space is dropped; a character outside the
\* alphabet, or a length of 1 modulo 4, is an InvalidCharacterError
StripBlanks(units) == SelectSeq(units, LAMBDA u : u \notin WhiteSpace)
GarbageBytes(units) ==
    [i \in 1..((Len(units) * 6) \div 8) |-> Raw("atob")]
Atob(string) ==
    IF \E i \in 1..Len(string.units) :
          string.units[i] \notin B64Chars \cup WhiteSpace
    THEN Thrown
    ELSE IF StripBlanks(string.units) = <<>> THEN Settled(string.bytes)
    ELSE IF Len(string.bytes) % 3 # 0 THEN Thrown      \* text after the padding
    ELSE IF Len(StripBlanks(string.units)) % 4 = 1 THEN Thrown
    ELSE Settled(string.bytes \o GarbageBytes(StripBlanks(string.units)))

\* btoa(String.fromCharCode(...combined))
Btoa(bytes) == B64(bytes)

\* the characters of a user id (a uuid): the two owners' ids differ only
\* after the first eight characters
IdChars(user) ==
    <<"0", "0", "0", "0", "0", "0", "0", "0", "-">>
    \o (IF user = "u1" THEN <<"1">> ELSE <<"2">>)

\* userId.slice(0, 8)
Salt(user) ==
    SubSeq(IdChars(user), 1,
           IF Len(IdChars(user)) < SaltLength THEN Len(IdChars(user)) ELSE SaltLength)

\* mutant of deriveKey: the key material is the salt alone
deriveKey_SaltOnly(user, salt) == [password |-> salt, salt |-> salt]

\* deriveKey(userId, salt): PBKDF2 over userId + salt with that salt
deriveKey(user, salt) == [password |-> IdChars(user) \o salt, salt |-> salt]

\* crypto.subtle.encrypt({name: 'AES-GCM', iv}, key, data)
AesGcmEncrypt(key, iv, data) ==
    [i \in 1..Len(data) |-> EncByte(key, iv, i, data[i])] \o <<Tag(key, iv, data)>>

\* crypto.subtle.decrypt({name: 'AES-GCM', iv}, key, encrypted): an
\* OperationError unless the bytes are a ciphertext made with this key and iv
AesGcmDecrypt(key, iv, encrypted) ==
    IF encrypted = <<>> THEN Thrown
    ELSE LET tag == encrypted[Len(encrypted)]
             body == SubSeq(encrypted, 1, Len(encrypted) - 1)
         IN IF /\ tag.t = "tag" /\ tag.key = key /\ tag.iv = iv
               /\ Len(tag.data) = Len(body)
               /\ \A i \in 1..Len(body) : body[i] = EncByte(key, iv, i, tag.data[i])
            THEN Settled(tag.data)
            ELSE Thrown

\* crypto.getRandomValues(new Uint8Array(IV_LENGTH))
IVs == {[i \in 1..IV_LENGTH |-> Raw(b)] : b \in {"00", "ff"}}

\* where the try block of encryptMessage can fail
EncryptFaults == {"none", "deriveKey", "encrypt", "btoa"}
\* where the try block of decryptMessage can fail besides atob and decrypt
DecryptFaults == {"none", "deriveKey"}

\* mutant of EncryptCatch: the error is thrown on to the caller
EncryptCatch_Rethrows(text) == Thrown

\* the catch block of encryptMessage: `return message`
EncryptCatch(text) == Settled(text)

\* the try block of encryptMessage
EncryptTry(text, user, iv, fault) ==
    IF fault # "none" THEN Thrown
    ELSE Settled(Btoa(iv \o AesGcmEncrypt(deriveKey(user, Salt(user)), iv,
                                          TextEncode(text))))

encryptMessage(text, user, iv, fault) ==
    IF EncryptTry(text, user, iv, fault).threw
    THEN EncryptCatch(text)
    ELSE EncryptTry(text, user, iv, fault)

\* mutant of DecryptCatch: a failed decryption shows nothing
DecryptCatch_ReturnsEmpty(stored) == Settled(Str(<<>>))

\* the catch block of decryptMessage: `return encryptedMessage`
DecryptCatch(stored) == Settled(stored)

\* combined.slice(0, IV_LENGTH) and combined.slice(IV_LENGTH)
IvOf(combined) ==
    SubSeq(combined, 1, IF Len(combined) < IV_LENGTH THEN Len(combined) ELSE IV_LENGTH)
CiphertextOf(combined) == SubSeq(combined, IV_LENGTH + 1, Len(combined))

\* the try block of decryptMessage
DecryptTry(stored, user, fault) ==
    IF fault # "none" \/ Atob(stored).threw THEN Thrown
    ELSE IF AesGcmDecrypt(deriveKey(user, Salt(user)), IvOf(Atob(stored).value),
                          CiphertextOf(Atob(stored).value)).threw
    THEN Thrown
    ELSE Settled(TextDecode(
            AesGcmDecrypt(deriveKey(user, Salt(user)), IvOf(Atob(stored).value),
                          CiphertextOf(Atob(stored).value)).value))

decryptMessage(stored, user, fault) ==
    IF DecryptTry(stored, user, fault).threw
    THEN DecryptCatch(stored)
    ELSE DecryptTry(stored, user, fault)

-----------------------------------------------------------------------------
(* One message through the codec: encrypted for its owner, stored, read    *)
(* back (possibly damaged in storage, possibly by another user)            *)

\* a text the user typed that is itself an envelope of the first owner's key
PastedEnvelopes ==
    {EncryptTry(Str(<<"h">>), "u1", iv, "none").value : iv \in IVs}

MessageTexts == {Str(units) : units \in Seqs(CodeUnits, MaxTextLen)} \cup PastedEnvelopes

\* what a stored envelope can turn into: its tag cut off, cut inside the IV,
\* a byte of the IV overwritten, a foreign character appended
DamageKinds == {"truncated", "truncated_iv", "corrupted", "junk"}
Damage(kind, string) ==
    CASE kind = "truncated" ->
           Text(SubSeq(string.bytes, 1, Len(string.bytes) - 1), string.units)
      [] kind = "truncated_iv" -> Text(SubSeq(string.bytes, 1, 5), string.units)
      [] kind = "corrupted" ->
           Text([string.bytes EXCEPT ![1] = Raw("5a")], string.units)
      [] kind = "junk" -> Text(string.bytes, string.units \o <<"!">>)

InitCrypto ==
    /\ Fresh /\ NoRequest
    /\ pc = "codec"
    /\ aiResponse = <<>> /\ replyBody = <<>> /\ replyWrap = "none"
    /\ composed = <<>>
    /\ messageBox = <<>> /\ loading = FALSE /\ currentSessionId = NoSession
    /\ messages = <<>> /\ chat_sessions = <<>> /\ chat_history = <<>>
    /\ runs = <<>> /\ loads = <<>> /\ now = 0 /\ browser = Working
    /\ \E text \in MessageTexts, owner \in Users :
          codec = [NoCodec EXCEPT !.pc = "plain", !.text = text, !.owner = owner]

\* ChatEncryption.encryptMessage(message, userId) settles
EncryptMessage ==
    /\ codec.pc = "plain"
    /\ \E iv \in IVs, fault \in EncryptFaults :
          codec' = [codec EXCEPT
                      !.pc = "stored",
                      !.encFault = fault,
                      !.stored = encryptMessage(codec.text, codec.owner, iv, fault).value,
                      !.threw = encryptMessage(codec.text, codec.owner, iv, fault).threw]
    /\ UNCHANGED <<serviceVars, composed, dashboardVars>>

\* the stored string is damaged before it is read back
DamageStored ==
    /\ codec.pc = "stored" /\ codec.damage = "none" /\ ~codec.threw
    /\ codec.stored.bytes # <<>>
    /\ \E kind \in DamageKinds :
          /\ Damage(kind, codec.stored) # codec.stored
          /\ codec' = [codec EXCEPT !.damage = kind,
                                    !.stored = Damage(kind, codec.stored)]
    /\ UNCHANGED <<serviceVars, composed, dashboardVars>>

\* ChatEncryption.decryptMessage(encryptedMessage, userId) settles
DecryptMessage ==
    /\ codec.pc = "stored" /\ ~codec.threw
    /\ \E reader \in Users, fault \in DecryptFaults :
          codec' = [codec EXCEPT
                      !.pc = "decrypted",
                      !.reader = reader,
                      !.decFault = fault,
                      !.output = decryptMessage(codec.stored, reader, fault).value,
                      !.threw = decryptMessage(codec.stored, reader, fault).threw]
    /\ UNCHANGED <<serviceVars, composed, dashboardVars>>

NextCrypto ==
    \/ EncryptMessage
    \/ DamageStored
    \/ DecryptMessage

SpecCrypto == InitCrypto /\ [][NextCrypto]_vars

-----------------------------------------------------------------------------
(* Claims about ChatEncryption *)

\* the owner has read back, undamaged, what encryptMessage returned
RoundTripDone ==
    /\ codec.pc = "decrypted" /\ codec.damage = "none"
    /\ codec.reader = codec.owner /\ codec.decFault = "none"

\* C12: decryptMessage(encryptMessage(text, owner), owner) returns text, for
\* every owner, text and initialization vector, also when the encryption
\* failed and returned the plaintext
C12_RoundTrip == RoundTripDone => (~codec.threw /\ codec.output = codec.text)

\* a text without unpaired surrogates
WellFormed(units) ==
    \A i \in 1..Len(units) :
        /\ units[i] = "HS" => (i < Len(units) /\ units[i + 1] = "LS")
        /\ units[i] = "LS" => (i > 1 /\ units[i - 1] = "HS")

\* the round trip on the texts where it does hold: well-formed UTF-16 and,
\* when the encryption failed, a text that is not itself an envelope
C12_RoundTripWellFormed ==
    (/\ RoundTripDone
     /\ WellFormed(codec.text.units)
     /\ codec.encFault # "none" => codec.text \notin PastedEnvelopes)
    => (~codec.threw /\ codec.output = codec.text)

\* the cases of C13: key derivation failed, the envelope was damaged, the
\* envelope was made with another owner's key, or the string is plain text
\* stored by a failed encryption
DecryptionFails ==
    \/ codec.decFault # "none"
    \/ codec.damage # "none"
    \/ codec.encFault = "none" /\ codec.reader # codec.owner
    \/ codec.encFault # "none" /\ codec.text.bytes = <<>>

\* C13: decryptMessage never throws, and whenever its base64 decoding, key
\* derivation or authenticated decryption fails it returns its input string
C13_DecryptFailOpen ==
    codec.pc = "decrypted"
    => /\ ~codec.threw
       /\ DecryptionFails => codec.output = codec.stored

\* a truncated envelope and an envelope of another key were returned as stored
C13_Witness ==
    /\ codec.pc = "decrypted" /\ ~codec.threw
    /\ codec.output = codec.stored
    /\ codec.stored.bytes # <<>>
    /\ codec.decFault = "none"
    /\ \/ codec.damage = "truncated"
       \/ codec.damage = "none" /\ codec.encFault = "none"
          /\ codec.reader # codec.owner

-----------------------------------------------------------------------------
(* DashboardPage: handleSendMessage with createOrGetSession and            *)
(* saveMessageToHistory.  A run of the handler is a record; it keeps the   *)
(* values its closure captured when the form was rendered (message,        *)
(* currentSessionId), which later state updates do not change.  Whether    *)
(* crypto.subtle exists and whether the storage service answers are fixed  *)
(* for a behaviour: the handlers keep nothing from one failure to the next.*)

MaxRuns == 2         \* most handleSendMessage runs in one behaviour

\* what the user types into the input box
Drafts == {<<SP>>, <<"h", "i">>}

\* the literal of the catch block of handleSendMessage
ErrorMessageText ==
    "I'm having trouble analyzing your data right now. Please check your API configuration and try again."

\* the message objects handleSendMessage builds; kind only names the literal
NoMessage ==
    [text |-> Str(<<>>), isUser |-> FALSE, timestamp |-> 0,
     insights |-> Undefined, kind |-> "none"]
UserMessage(text, t) ==
    [text |-> Str(text), isUser |-> TRUE, timestamp |-> t,
     insights |-> Undefined, kind |-> "user"]
AiMessage(aiResult, t) ==
    [text |-> Str(aiResult.message.s), isUser |-> FALSE, timestamp |-> t,
     insights |-> aiResult.insights, kind |-> "assistant"]
ErrorMessage(t) ==
    [text |-> Str(<<ErrorMessageText>>), isUser |-> FALSE, timestamp |-> t,
     insights |-> Undefined, kind |-> "error"]

\* mutant of HistoryRow: the row carries message.text
HistoryRow_PlainText(msg, encryptedText, user, session, fault) ==
    [user_id |-> user, session_id |-> session, message_text |-> msg.text,
     is_user_message |-> msg.isUser, timestamp |-> msg.timestamp,
     insights |-> msg.insights, plain |-> msg.text, encFault |-> fault]

\* the row saveMessageToHistory inserts; plain and encFault record what the
\* text was before encryptMessage and whether its try block failed
HistoryRow(msg, encryptedText, user, session, fault) ==
    [user_id |-> user, session_id |-> session, message_text |-> encryptedText,
     is_user_message |-> msg.isUser, timestamp |-> msg.timestamp,
     insights |-> msg.insights, plain |-> msg.text, encFault |-> fault]

\* what aiService.analyzeData settles with: the configuration error when
\* the key is missing, otherwise the apology or a parsed reply
NoOutcome == [outcome |-> "pending", result |-> Undefined]
ParsedFullReply == parseAIResponse(FullReply).value
AnalyzeOutcomes ==
    IF KeyConfigured
    THEN {FallbackCatch, [outcome |-> "resolved", result |-> ParsedFullReply]}
    ELSE {[outcome |-> "rejected", result |-> ConfigurationError]}

\* the message handleSendMessage shows for what analyzeData settled with
ReplyMessage(settled, t) ==
    IF settled.outcome = "resolved"
    THEN AiMessage(settled.result, t) ELSE ErrorMessage(t)

\* the IV getRandomValues hands to the dashboard's encryptMessage calls; the
\* handlers never look at it, so one value stands for all
PageIV == CHOOSE iv \in IVs : TRUE

\* where the try block of encryptMessage fails in this browser
BrowserFault == IF browser.subtle THEN "none" ELSE "deriveKey"

\* a run of handleSendMessage as the form starts it
NewRun(session, text) ==
    [pc |-> "start", currentSessionId |-> session, message |-> text,
     sessionId |-> NoSession, userMessage |-> NoMessage, stage |-> "user",
     saving |-> NoMessage, encryptedText |-> Str(<<>>), encFault |-> "none",
     analyze |-> NoOutcome, reply |-> NoMessage, calls |-> 0]

\* a run of loadChatHistory; settled lists the decryptions in the order they
\* completed in
NewLoad(session) ==
    [pc |-> "querying", sessionId |-> session, data |-> <<>>, pending |-> {},
     texts |-> <<>>, settled |-> <<>>]

\* saveMessageToHistory returned: after the user message, setLoading(true)
\* and the analyzeData call; after the reply, `finally` and the end
RunAfterSave(run) ==
    IF run.stage = "user"
    THEN [run EXCEPT !.pc = "awaiting_analyze", !.calls = @ + 1,
                     !.saving = NoMessage, !.encryptedText = Str(<<>>),
                     !.encFault = "none"]
    ELSE [run EXCEPT !.pc = "finished", !.saving = NoMessage,
                     !.encryptedText = Str(<<>>), !.encFault = "none"]
\* mutant of LoadingAfterSave: setLoading(false) at the end of the try block
\* instead of in `finally`
LoadingAfterSave_NoFinally(run) ==
    run.stage = "user" \/ run.analyze.outcome = "rejected"

LoadingAfterSave(run) == run.stage = "user"
MessageBoxAfterSave(run) == IF run.stage = "user" THEN messageBox ELSE <<>>

InitDashboard ==
    /\ Fresh
    /\ pc = "dashboard"
    /\ apiKey \in BOOLEAN
    /\ data_sources = AllSources
    /\ userId = "u1"
    /\ userMessage = "none"
    /\ selectedDatasets = Selected(<<>>)
    /\ aiResponse = <<>> /\ replyBody = <<>> /\ replyWrap = "none"
    /\ composed = <<>> /\ codec = NoCodec
    /\ messageBox \in Drafts
    /\ loading = FALSE
    /\ \/ currentSessionId = NoSession /\ chat_sessions = <<>>
       \/ /\ currentSessionId = SessionId(1)
          /\ chat_sessions = <<[id |-> SessionId(1), user_id |-> userId]>>
    /\ messages = <<>> /\ chat_history = <<>>
    /\ runs = <<>> /\ loads = <<>> /\ now = 0
    /\ browser \in {Browser(subtle, storage) : subtle \in BOOLEAN, storage \in BOOLEAN}

\* onChange of the input, which is disabled while loading
TypeMessage ==
    /\ ~loading
    /\ messageBox' \in Drafts \ {messageBox}
    /\ UNCHANGED <<serviceVars, composed, codec, loading, currentSessionId,
                   messages, chat_sessions, chat_history, runs, loads, now,
                   browser>>

\* onSubmit of the form: handleSendMessage up to its first await
SubmitMessage ==
    /\ ~loading
    /\ Trim(messageBox) # <<>>
    /\ Len(runs) < MaxRuns
    /\ IF currentSessionId # NoSession
       THEN /\ runs' = Append(runs,
                  [NewRun(currentSessionId, messageBox) EXCEPT
                     !.pc = "encrypting", !.sessionId = currentSessionId,
                     !.userMessage = UserMessage(messageBox, now + 1),
                     !.saving = UserMessage(messageBox, now + 1)])
            /\ messages' = Append(messages, UserMessage(messageBox, now + 1))
            /\ now' = now + 1
       ELSE /\ runs' = Append(runs,
                  [NewRun(currentSessionId, messageBox) EXCEPT
                     !.pc = "creating_session"])
            /\ UNCHANGED <<messages, now>>
    /\ UNCHANGED <<serviceVars, composed, codec, messageBox, loading,
                   currentSessionId, chat_sessions, chat_history, loads, browser>>

\* the insert into chat_sessions settles; on success setCurrentSessionId makes
\* the effect issue the history query of the new session, and the handler
\* shows the user message, calls saveMessageToHistory, whose closure still
\* holds no session, sets loading and calls analyzeData
SessionInsertSettles ==
  \E r \in 1..Len(runs) :
    /\ runs[r].pc = "creating_session"
    /\ IF browser.storage
       THEN /\ chat_sessions' =
                 Append(chat_sessions,
                        [id |-> SessionId(Len(chat_sessions) + 1), user_id |-> userId])
            /\ currentSessionId' = SessionId(Len(chat_sessions) + 1)
            /\ messages' = Append(messages, UserMessage(runs[r].message, now + 1))
            /\ now' = now + 1
            /\ loading' = TRUE
            /\ loads' = Append(loads, NewLoad(SessionId(Len(chat_sessions) + 1)))
            /\ runs' = [runs EXCEPT ![r] =
                  [@ EXCEPT !.pc = "awaiting_analyze", !.calls = @ + 1,
                            !.sessionId = SessionId(Len(chat_sessions) + 1),
                            !.userMessage = UserMessage(runs[r].message, now + 1)]]
       ELSE /\ runs' = [runs EXCEPT ![r] = [@ EXCEPT !.pc = "finished"]]
            /\ UNCHANGED <<chat_sessions, currentSessionId, messages, now, loading,
                           loads>>
    /\ UNCHANGED <<serviceVars, composed, codec, messageBox, chat_history, browser>>

\* encryptMessage settles inside saveMessageToHistory; the insert is issued
EncryptionSettles ==
  \E r \in 1..Len(runs) :
    /\ runs[r].pc = "encrypting"
    /\ IF encryptMessage(runs[r].saving.text, userId, PageIV, BrowserFault).threw
          THEN /\ runs' = [runs EXCEPT ![r] = RunAfterSave(@)]
               /\ loading' = LoadingAfterSave(runs[r])
               /\ messageBox' = MessageBoxAfterSave(runs[r])
          ELSE /\ runs' = [runs EXCEPT ![r] =
                     [@ EXCEPT !.pc = "inserting", !.encFault = BrowserFault,
                               !.encryptedText =
                                   encryptMessage(runs[r].saving.text, userId,
                                                  PageIV, BrowserFault).value]]
               /\ UNCHANGED <<loading, messageBox>>
    /\ UNCHANGED <<serviceVars, composed, codec, currentSessionId, messages,
                   chat_sessions, chat_history, loads, now, browser>>

\* the insert into chat_history settles; an error is logged and dropped
HistoryInsertSettles ==
  \E r \in 1..Len(runs) :
    /\ runs[r].pc = "inserting"
    /\ chat_history' =
          IF browser.storage
          THEN Append(chat_history,
                      HistoryRow(runs[r].saving, runs[r].encryptedText, userId,
                                 runs[r].currentSessionId, runs[r].encFault))
          ELSE chat_history
    /\ runs' = [runs EXCEPT ![r] = RunAfterSave(@)]
    /\ loading' = LoadingAfterSave(runs[r])
    /\ messageBox' = MessageBoxAfterSave(runs[r])
    /\ UNCHANGED <<serviceVars, composed, codec, currentSessionId, messages,
                   chat_sessions, loads, now, browser>>

\* analyzeData settles: the reply, or the catch block's message, is shown
\* and handed to saveMessageToHistory
AnalyzeSettles ==
  \E r \in 1..Len(runs) :
    /\ runs[r].pc = "awaiting_analyze"
    /\ \E settled \in AnalyzeOutcomes :
          /\ messages' = Append(messages, ReplyMessage(settled, now + 1))
          /\ IF runs[r].currentSessionId # NoSession
             THEN /\ runs' = [runs EXCEPT ![r] =
                        [@ EXCEPT !.pc = "encrypting", !.stage = "reply",
                                  !.analyze = settled,
                                  !.reply = ReplyMessage(settled, now + 1),
                                  !.saving = ReplyMessage(settled, now + 1)]]
                  /\ UNCHANGED <<loading, messageBox>>
             ELSE /\ runs' = [runs EXCEPT ![r] =
                        [@ EXCEPT !.pc = "finished", !.stage = "reply",
                                  !.analyze = settled,
                                  !.reply = ReplyMessage(settled, now + 1)]]
                  /\ loading' = FALSE
                  /\ messageBox' = <<>>
    /\ now' = now + 1
    /\ UNCHANGED <<serviceVars, composed, codec, currentSessionId,
                   chat_sessions, chat_history, loads, browser>>

NextDashboard ==
    \/ TypeMessage
    \/ SubmitMessage
    \/ SessionInsertSettles
    \/ EncryptionSettles
    \/ HistoryInsertSettles
    \/ AnalyzeSettles

SpecDashboard == InitDashboard /\ [][NextDashboard]_vars

\* every promise the handler awaits settles: the storage client, Web Crypto
\* and analyzeData answer or fail, none hangs
SpecDashboardFair ==
    /\ SpecDashboard
    /\ WF_vars(SessionInsertSettles)
    /\ WF_vars(EncryptionSettles)
    /\ WF_vars(HistoryInsertSettles)
    /\ WF_vars(AnalyzeSettles)

-----------------------------------------------------------------------------
(* DashboardPage: loadChatHistory, started by the effect on                *)
(* currentSessionId after handleSessionSelect                              *)

MaxRows == 3         \* most chat_history rows in the table

\* rows of earlier turns: an envelope, a legacy plaintext row, an envelope cut
\* short, an envelope of another user's key, and a row of another session
StoredRows ==
    {HistoryRow(UserMessage(<<"h", "i">>, 1),
                EncryptTry(Str(<<"h", "i">>), "u1", PageIV, "none").value,
                "u1", SessionId(1), "none"),
     HistoryRow(UserMessage(<<"h", SP, "i">>, 2), Str(<<"h", SP, "i">>),
                "u1", SessionId(1), "deriveKey"),
     HistoryRow(AiMessage(ApologyResult, 3),
                Damage("truncated",
                       EncryptTry(Str(ApologyResult.message.s), "u1", PageIV,
                                  "none").value),
                "u1", SessionId(1), "none"),
     HistoryRow(UserMessage(<<"i">>, 4),
                EncryptTry(Str(<<"i">>), "u2", PageIV, "none").value,
                "u1", SessionId(1), "none"),
     HistoryRow(UserMessage(<<"h">>, 5),
                EncryptTry(Str(<<"h">>), "u1", PageIV, "none").value,
                "u1", SessionId(2), "none")}

\* the tables the rows can be found in, in any order of insertion
HistoryTables ==
    {t \in Seqs(StoredRows, MaxRows) :
        \A i \in 1..Len(t), j \in 1..Len(t) : i # j => t[i] # t[j]}

\* .eq('session_id', sessionId).order('timestamp', { ascending: true })
SessionRows(table, session) ==
    {table[i] : i \in {j \in 1..Len(table) : table[j].session_id = session}}
OrderedByTimestamp(rows) ==
    [k \in 1..Cardinality(rows) |->
        CHOOSE row \in rows :
            Cardinality({x \in rows : x.timestamp < row.timestamp}) = k - 1]
SelectHistory(table, session) == OrderedByTimestamp(SessionRows(table, session))

\* the object the map callback returns for a row and its decrypted text
Formatted(row, text) ==
    [text |-> text, isUser |-> row.is_user_message, timestamp |-> row.timestamp,
     insights |-> Or(row.insights, JArr(<<>>))]

\* mutant of FormattedMessages: the list is in the order the decryptions
\* settled in
FormattedMessages_CompletionOrder(load) ==
    [k \in 1..Len(load.settled) |->
        Formatted(load.data[load.settled[k]], load.texts[load.settled[k]])]

\* what Promise.all resolves with: one object per row, in the rows' order
FormattedMessages(load) ==
    [k \in 1..Len(load.data) |-> Formatted(load.data[k], load.texts[k])]

InitLoad ==
    /\ Fresh
    /\ pc = "dashboard"
    /\ apiKey = TRUE
    /\ data_sources = AllSources
    /\ userId = "u1"
    /\ userMessage = "none"
    /\ selectedDatasets = Selected(<<>>)
    /\ aiResponse = <<>> /\ replyBody = <<>> /\ replyWrap = "none"
    /\ composed = <<>> /\ codec = NoCodec
    /\ messageBox = <<>> /\ loading = FALSE
    /\ currentSessionId = NoSession
    /\ chat_sessions = <<[id |-> SessionId(1), user_id |-> userId],
                         [id |-> SessionId(2), user_id |-> userId]>>
    /\ messages = <<>>
    /\ chat_history \in HistoryTables
    /\ runs = <<>> /\ loads = <<>> /\ now = 0
    /\ browser \in {Browser(subtle, storage) : subtle \in BOOLEAN, storage \in BOOLEAN}

\* handleSessionSelect, then the effect: loadChatHistory issues its query
SelectSession ==
    /\ loads = <<>>
    /\ \E i \in 1..Len(chat_sessions) :
          /\ chat_sessions[i].id # currentSessionId
          /\ currentSessionId' = chat_sessions[i].id
          /\ loads' = <<NewLoad(chat_sessions[i].id)>>
    /\ UNCHANGED <<serviceVars, composed, codec, messageBox, loading, messages,
                   chat_sessions, chat_history, runs, now, browser>>

\* the query settles: with an error, which is logged, or with the rows, and
\* data.map starts one decryptMessage per row
HistoryReturns ==
    /\ loads # <<>> /\ loads[1].pc = "querying"
    /\ loads' =
          IF browser.storage
          THEN <<[loads[1] EXCEPT
                    !.pc = "decrypting",
                    !.data = SelectHistory(chat_history, loads[1].sessionId),
                    !.pending =
                        1..Len(SelectHistory(chat_history, loads[1].sessionId)),
                    !.texts =
                        [k \in 1..Len(SelectHistory(chat_history, loads[1].sessionId))
                           |-> Str(<<>>)]]>>
          ELSE <<[loads[1] EXCEPT !.pc = "failed"]>>
    /\ UNCHANGED <<serviceVars, composed, codec, messageBox, loading,
                   currentSessionId, messages, chat_sessions, chat_history, runs,
                   now, browser>>

\* one of the pending decryptMessage calls settles
DecryptionSettles ==
    /\ loads # <<>> /\ loads[1].pc = "decrypting"
    /\ \E k \in loads[1].pending :
          loads' =
            <<[loads[1] EXCEPT
                 !.pending = @ \ {k},
                 !.settled = Append(@, k),
                 !.texts[k] = decryptMessage(loads[1].data[k].message_text, userId,
                                             BrowserFault).value]>>
    /\ UNCHANGED <<serviceVars, composed, codec, messageBox, loading,
                   currentSessionId, messages, chat_sessions, chat_history, runs,
                   now, browser>>

\* Promise.all resolves once every decryption has settled: setMessages
ShowHistory ==
    /\ loads # <<>> /\ loads[1].pc = "decrypting" /\ loads[1].pending = {}
    /\ messages' = FormattedMessages(loads[1])
    /\ loads' = <<[loads[1] EXCEPT !.pc = "shown"]>>
    /\ UNCHANGED <<serviceVars, composed, codec, messageBox, loading,
                   currentSessionId, chat_sessions, chat_history, runs, now,
                   browser>>

NextLoad ==
    \/ SelectSession
    \/ HistoryReturns
    \/ DecryptionSettles
    \/ ShowHistory

SpecLoad == InitLoad /\ [][NextLoad]_vars

-----------------------------------------------------------------------------
(* The page with everything above at work: turns of handleSendMessage, the *)
(* history query the effect issues when the session changes, and the user  *)
(* picking another conversation, in a browser where all services answer.   *)
(* One turn and one history load are followed per behaviour.               *)

\* the row of an earlier turn in the second conversation
OtherSessionRow ==
    HistoryRow(UserMessage(<<"h">>, 5),
               EncryptTry(Str(<<"h">>), "u1", PageIV, "none").value,
               "u1", SessionId(2), "none")

InitChat ==
    /\ Fresh
    /\ pc = "dashboard"
    /\ apiKey = TRUE
    /\ data_sources = AllSources
    /\ userId = "u1"
    /\ userMessage = "none"
    /\ selectedDatasets = Selected(<<>>)
    /\ aiResponse = <<>> /\ replyBody = <<>> /\ replyWrap = "none"
    /\ composed = <<>> /\ codec = NoCodec
    /\ messageBox = <<"h", "i">>
    /\ loading = FALSE
    /\ currentSessionId \in {NoSession, SessionId(1)}
    /\ chat_sessions = <<[id |-> SessionId(1), user_id |-> userId],
                         [id |-> SessionId(2), user_id |-> userId]>>
    /\ messages = <<>>
    /\ chat_history = <<OtherSessionRow>>
    /\ runs = <<>> /\ loads = <<>> /\ now = 5
    /\ browser = Working

\* the one message the user sends in a behaviour
SubmitFirstMessage == runs = <<>> /\ SubmitMessage

NextChat ==
    \/ SubmitFirstMessage
    \/ SessionInsertSettles
    \/ EncryptionSettles
    \/ HistoryInsertSettles
    \/ AnalyzeSettles
    \/ SelectSession
    \/ HistoryReturns
    \/ DecryptionSettles
    \/ ShowHistory

SpecChat == InitChat /\ [][NextChat]_vars

-----------------------------------------------------------------------------
(* Claims about the chat handlers of DashboardPage *)

Rows == 1..Len(chat_history)
Runs == 1..Len(runs)

\* the string is an envelope the user's key opens
OpensWith(string, user) == ~DecryptTry(string, user, "none").threw

C16_NotPipelined ==
    /\ Cardinality({r \in Runs : runs[r].pc # "finished"}) <= 1
    /\ Cardinality({r \in Runs : runs[r].pc = "awaiting_analyze"}) <= 1

\* the run's saveMessageToHistory(userMessage) has returned
UserSaveReturned(r) ==
    runs[r].userMessage # NoMessage
    /\ (runs[r].pc = "awaiting_analyze" \/ runs[r].stage = "reply")

\* the run's saveMessageToHistory of the reply has returned
ReplySaveReturned(r) == runs[r].pc = "finished" /\ runs[r].reply # NoMessage

\* chat_history has the row of this message under this session
Stored(msg, session) ==
    \E i \in Rows :
        /\ chat_history[i].session_id = session
        /\ chat_history[i].plain = msg.text
        /\ chat_history[i].timestamp = msg.timestamp
        /\ chat_history[i].is_user_message = msg.isUser

\* C17: on every turn, the first one of a new chat included, the user message
\* is in chat_history under the turn's session id before analyzeData is
\* called, and the reply is there under the same session id once the turn has
\* ended (the storage service answering without error)
C17_RowsEveryTurn ==
    browser.storage
    => \A r \in Runs :
          /\ UserSaveReturned(r) => Stored(runs[r].userMessage, runs[r].sessionId)
          /\ ReplySaveReturned(r) => Stored(runs[r].reply, runs[r].sessionId)

\* the same for the turns of a chat whose session existed when the form was
\* rendered
C17_RowsInOpenSession ==
    browser.storage
    => \A r \in Runs :
          runs[r].currentSessionId # NoSession
          => /\ UserSaveReturned(r)
                => Stored(runs[r].userMessage, runs[r].sessionId)
             /\ ReplySaveReturned(r) => Stored(runs[r].reply, runs[r].sessionId)

\* C18: when analyzeData rejects with the configuration error, the message
\* the dashboard shows differs from the apology shown for model, parse and
\* transport failures, and analyzeData is not called again
C18_ConfigErrorDistinguished ==
    \A r \in Runs :
        (runs[r].analyze.outcome = "rejected"
         /\ runs[r].analyze.result = ConfigurationError)
        => /\ runs[r].reply.text # Str(ApologyResult.message.s)
           /\ runs[r].calls <= 1

\* the part of C18 about retries: one analyzeData call per run at most
C18_NoRetry == \A r \in Runs : runs[r].calls <= 1

-----------------------------------------------------------------------------
(* Claims about loadChatHistory *)

\* the decryptions did not settle in the order of the rows
OutOfOrder(load) ==
    \E a \in 1..Len(load.settled), b \in 1..Len(load.settled) :
        a < b /\ load.settled[a] > load.settled[b]

\* the text shown for a row: its plaintext when the stored string is an
\* intact envelope of the user's key and the key can be derived, otherwise
\* the stored string
ShownText(row) ==
    IF browser.subtle /\ OpensWith(row.message_text, userId)
    THEN row.plain ELSE row.message_text

\* C19: loadChatHistory starts the decryptions of all rows of the session
\* together; whatever order they settle in, the message list it sets has one
\* message per row of the session in ascending timestamp order; a message
\* whose decryption fails shows its stored text and the others their plaintext
C19_HistoryInRowOrder ==
    \A n \in 1..Len(loads) :
        /\ loads[n].pc = "decrypting"
           => /\ Len(loads[n].data)
                   = Cardinality(loads[n].pending) + Len(loads[n].settled)
              /\ loads[n].pending
                   = (1..Len(loads[n].data))
                     \ {loads[n].settled[k] : k \in 1..Len(loads[n].settled)}
        /\ loads[n].pc = "shown"
           => /\ Len(messages)
                   = Cardinality(SessionRows(chat_history, loads[n].sessionId))
              /\ \A k \in 1..Len(messages) :
                    /\ \E row \in SessionRows(chat_history, loads[n].sessionId) :
                          /\ messages[k].timestamp = row.timestamp
                          /\ messages[k].isUser = row.is_user_message
                          /\ messages[k].text = ShownText(row)
                    /\ \A j \in 1..Len(messages) :
                          j < k => messages[j].timestamp < messages[k].timestamp

\* three messages are shown, their decryptions settled out of order, and one
\* of them failed
C19_Witness ==
    /\ loads # <<>> /\ loads[1].pc = "shown"
    /\ Len(messages) >= 3
    /\ OutOfOrder(loads[1])
    /\ browser.subtle
    /\ \E row \in SessionRows(chat_history, loads[1].sessionId) :
          ShownText(row) = row.message_text /\ row.message_text # row.plain
    /\ \E row \in SessionRows(chat_history, loads[1].sessionId) :
          ShownText(row) = row.plain /\ row.message_text # row.plain

-----------------------------------------------------------------------------
(* Claims about the owner of the data in the context *)

\* the uploads of the data sources of a user, and of everybody else
UploadsOwnedBy(user) ==
    UNION {{data_sources[i].uploaded_csv_data[k] :
               k \in 1..Len(data_sources[i].uploaded_csv_data)} :
           i \in {j \in 1..Len(data_sources) : data_sources[j].user_id = user}}
ForeignUploads(user) ==
    UNION {{data_sources[i].uploaded_csv_data[k] :
               k \in 1..Len(data_sources[i].uploaded_csv_data)} :
           i \in {j \in 1..Len(data_sources) : data_sources[j].user_id # user}}

\* C20: the uploads handed to prepareDataContext for analyzeData(userId, ...)
\* all belong to data sources of userId, and the summary names no file of
\* anybody else's data source, whatever the selection is
C20_OwnerIsolation ==
    /\ \A i \in 1..Len(csvData) : csvData[i] \in UploadsOwnedBy(userId)
    /\ \A upload \in ForeignUploads(userId) :
          \A k \in 1..Len(dataContext) : dataContext[k] # upload.original_filename

\* a request whose selection names another user's dataset, present in the
\* table, got a summary of the caller's own dataset
C20_Witness ==
    /\ pc = "awaiting_model"
    /\ userId = "u1"
    /\ Includes(selectedDatasets.ids, "ds3")
    /\ ForeignUploads(userId) # {}
    /\ csvData # <<>>
    /\ \E k \in 1..Len(dataContext) : dataContext[k] = "sales.csv"

-----------------------------------------------------------------------------
(* Claims about the summary of a request's datasets *)

\* the storage query has answered and the summary has been built
ContextBuilt == pc \in {"awaiting_model", "reading_body", "done"} /\ fetchCalls = 1
                    /\ prompt # <<>>

\* the data_sources row an upload hangs under
SourceOf(upload) ==
    CHOOSE i \in 1..Len(data_sources) :
        \E k \in 1..Len(data_sources[i].uploaded_csv_data) :
            data_sources[i].uploaded_csv_data[k] = upload

\* C21: in the summary of a request the header line of the i-th dataset is
\* 'Dataset i: <name>' with the name the owner gave the data source.
C21_HeaderCarriesSourceName ==
    (ContextBuilt /\ csvData # <<>>) =>
        /\ Len(HeaderLines(dataContext)) = Len(csvData)
        /\ \A i \in 1..Len(csvData) :
              HeaderLines(dataContext)[i] =
                  <<"Dataset", SP, ToString(i), COLON, SP,
                    data_sources[SourceOf(csvData[i])].name>>

\* what holds instead: the header carries the file name of the upload
C21_HeaderCarriesFileName ==
    (ContextBuilt /\ csvData # <<>>) =>
        /\ Len(HeaderLines(dataContext)) = Len(csvData)
        /\ \A i \in 1..Len(csvData) :
              HeaderLines(dataContext)[i] =
                  <<"Dataset", SP, ToString(i), COLON, SP,
                    csvData[i].original_filename>>

\* the lines that read 'Columns: ...', in the order of the text
ColumnLines(ts) ==
    LET starts == {s \in LineStarts(ts) :
                      s + 1 <= Len(ts) /\ ts[s] = "Columns" /\ ts[s + 1] = COLON}
        nth(n) == CHOOSE s \in starts : Cardinality({t \in starts : t < s}) = n - 1
    IN [n \in 1..Cardinality(starts) |-> SubSeq(ts, nth(n), LineEnd(ts, nth(n)))]

\* the text under each 'Sample data:' line, up to the end of its section
SampleTexts(ts) ==
    LET starts == {s \in LineStarts(ts) : s <= Len(ts) /\ ts[s] = "Sample data"}
        heads == {s \in LineStarts(ts) :
                     s + 1 <= Len(ts) /\ ts[s] = "Dataset" /\ ts[s + 1] = SP}
        nth(n) == CHOOSE s \in starts : Cardinality({t \in starts : t < s}) = n - 1
        last(s) == IF \E h \in heads : h > s
                   THEN (CHOOSE h \in heads : h > s /\ \A g \in heads : g > s => h <= g) - 3
                   ELSE Len(ts) - 1
    IN [n \in 1..Cardinality(starts) |-> SubSeq(ts, nth(n) + 3, last(nth(n)))]

\* the column names of a record in the order they are first encountered
FirstEncountered(records) ==
    IF records = <<>> THEN <<>>
    ELSE [k \in 1..Len(records[1]) |-> records[1][k].col]

\* the first n records, or all of them when there are fewer
FirstRecords(records, n) ==
    SubSeq(records, 1, IF Len(records) < n THEN Len(records) ELSE n)

\* the sample of a dataset is its first SampleSize records, serialised
SampleIsFirstRecords ==
    /\ SampleSize \in 3..5
    /\ Len(SampleTexts(dataContext)) = Len(csvData)
    /\ \A i \in 1..Len(csvData) :
          SampleTexts(dataContext)[i] =
              Stringify(FirstRecords(csvData[i].data_json, SampleSize))

\* C22: for each dataset the summary lists the column names of the first
\* record in first-encountered order and a sample of the first records, of a
\* fixed size between 3 and 5 (fewer when the dataset has fewer); a dataset
\* without records gives an empty column list and an empty sample.
C22_ColumnsAndSample ==
    (pc = "context_done" /\ csvData # <<>>) =>
        /\ Len(ColumnLines(dataContext)) = Len(csvData)
        /\ \A i \in 1..Len(csvData) :
              ColumnLines(dataContext)[i] =
                  <<"Columns", COLON, SP>>
                  \o Join([k \in 1..Len(FirstEncountered(csvData[i].data_json)) |->
                             <<FirstEncountered(csvData[i].data_json)[k]>>],
                          <<COMMA, SP>>)
        /\ SampleIsFirstRecords

\* what holds instead: the column names come in the order of Object.keys,
\* names that are array indices first; the sample is as claimed
C22_ColumnsInKeyOrder ==
    (pc = "context_done" /\ csvData # <<>>) =>
        /\ Len(ColumnLines(dataContext)) = Len(csvData)
        /\ \A i \in 1..Len(csvData) :
              ColumnLines(dataContext)[i] =
                  <<"Columns", COLON, SP>>
                  \o Join([k \in 1..Len(FirstEncountered(csvData[i].data_json)) |->
                             <<FirstEncountered(
                                 <<OwnProperties(csvData[i].data_json[1])>>)[k]>>],
                          <<COMMA, SP>>)
        /\ SampleIsFirstRecords

\* the storage query of the request selects no upload
NothingToFetch == FlatMapUploads(RunQuery(query, data_sources)) = <<>>

\* C23: zero datasets is a valid context: when the storage query answers with
\* no uploads, analyzeData composes the prompt around the 'no data' sentinel
\* and issues the model call, and the reply that comes back is returned as
\* parsed; the request ends in the error fallback only when the model call
\* itself failed.
C23_ZeroDatasetsValid ==
    /\ [][(pc = "fetching_data" /\ NothingToFetch /\ returnedAt' # "catch") =>
             /\ csvData' = <<>>
             /\ dataContext' = <<"No CSV data available for analysis.">>
             /\ prompt' = createAnalysisPrompt(userMessage,
                              <<"No CSV data available for analysis.">>,
                              selectedDatasets)
             /\ httpCalls' = httpCalls + 1
             /\ pc' = "awaiting_model"]_vars
    /\ [][(pc = "reading_body" /\ csvData = <<>> /\ httpStatus \in OkStatuses
             /\ returnedAt' # "catch") =>
             /\ pc' = "done"
             /\ outcome' = "resolved"
             /\ returnedAt' = "parseAIResponse"
             /\ result' = parseAIResponse(aiResponse').value
             /\ result' # ApologyResult]_vars
    /\ []((pc = "done" /\ httpCalls = 1 /\ csvData = <<>> /\ returnedAt = "catch") =>
             \/ ModelCallFailed
             \/ httpStatus \in OkStatuses /\ aiResponse = <<>>)

\* the caller selected only another user's dataset, none of its own matched,
\* and the model's reply came back as the result
C23_Witness ==
    /\ pc = "done"
    /\ userId = "u1"
    /\ selectedDatasets = Selected(<<"ds3">>)
    /\ Len(data_sources) = Len(AllSources)
    /\ csvData = <<>>
    /\ dataContext = NoDataSentinel
    /\ httpCalls = 1
    /\ returnedAt = "parseAIResponse"
    /\ result.message = JStr(<<"ok">>)

-----------------------------------------------------------------------------
(* Claims about a parsed reply without a message *)

\* the cleaned text parsed as JSON and the value carries no message: the key
\* is missing, its value is empty or otherwise falsy, or the value is no object
ParsedWithoutMessage ==
    Parsed /\ StrictParse.ok /\ ~Truthy(Get(StrictParse.val, MESSAGE))

\* the raw text as message and the other fields from the parsed value
RawMessageOtherFieldsMapped ==
    /\ result.message = JStr(aiResponse)
    /\ result.reformulated_query = Get(StrictParse.val, REFORMULATED_QUERY)
    /\ result.insights = TruthyOrDefault(StrictParse.val, INSIGHTS, JArr(<<>>))
    /\ result.metrics = TruthyOrDefault(StrictParse.val, METRICS, JObj(<<>>))
    /\ result.recommendations =
           TruthyOrDefault(StrictParse.val, RECOMMENDATIONS, JArr(<<>>))
    /\ result.insights # SentinelInsights

\* C24 as stated: when the cleaned text parses as JSON and the value carries no
\* message, the message is the whole raw text as received, the other fields
\* are mapped from the parsed value with the empty defaults, and the sentinel
\* insight is not added.
C24_AsStated == ParsedWithoutMessage => RawMessageOtherFieldsMapped

\* C24 amended: the same for every parsed value but null; for null the result
\* is the plain fallback: the raw text as message and the sentinel insight.
C24_RawMessageUnlessNull ==
    ParsedWithoutMessage =>
        IF StrictParse.val = JNull
        THEN /\ result.message = JStr(aiResponse)
             /\ result.insights = SentinelInsights
             /\ result.reformulated_query = Undefined
             /\ result.metrics = Undefined
             /\ result.recommendations = Undefined
        ELSE RawMessageOtherFieldsMapped

\* a fenced object with an empty message and a query: the message is the raw
\* text with its fences, the query is kept, the lists are empty
C24_Witness ==
    /\ pc = "parsed"
    /\ replyWrap = "fence_json_padded"
    /\ ParsedWithoutMessage
    /\ Get(StrictParse.val, MESSAGE) = JStr(<<>>)
    /\ result.message = JStr(aiResponse)
    /\ aiResponse # Trim(aiResponse)
    /\ result.reformulated_query = JStr(<<"Q">>)
    /\ result.insights = JArr(<<>>)

-----------------------------------------------------------------------------
(* Claims about the keys of different owners *)

\* a user other than the owner has read back, undamaged, what encryptMessage
\* returned for the owner
CrossRead ==
    /\ codec.pc = "decrypted" /\ codec.damage = "none"
    /\ codec.reader # codec.owner

\* the keys of two different owners differ
KeysDiffer ==
    \A a \in Users, b \in Users :
        a # b => deriveKey(a, Salt(a)) # deriveKey(b, Salt(b))

-----------------------------------------------------------------------------
(* Claims about the loading flag *)

\* C26: every submission that sets the loading flag clears it again: once
\* analyzeData has settled, resolved or rejected, and the save of the reply
\* has returned, stored or not, loading is false and the input enabled.
C26_LoadingClears == loading ~> ~loading

\* a turn whose analyzeData rejected and whose saves failed has ended with
\* the flag cleared
C26_Witness ==
    /\ ~loading
    /\ ~browser.storage
    /\ chat_history = <<>>
    /\ \E r \in 1..Len(runs) :
          /\ runs[r].pc = "finished"
          /\ runs[r].calls = 1
          /\ runs[r].analyze.outcome = "rejected"
          /\ runs[r].reply.kind = "error"

-----------------------------------------------------------------------------
(* Claims about turns and history loads on one page *)

\* the last n messages of the displayed list
LastMessages(n) ==
    IF Len(messages) < n THEN <<>>
    ELSE SubSeq(messages, Len(messages) - n + 1, Len(messages))

\* the turn of run r has just ended and its analyzeData call resolved
TurnResolved(r) ==
    /\ runs[r].pc = "finished"
    /\ runs[r].analyze.outcome = "resolved"

\* the first turn of a new chat: the run started without a session, created
\* one, and the effect's query for that session is the load of the behaviour
FirstTurnOfNewChat(r) ==
    /\ runs[r].currentSessionId = NoSession
    /\ runs[r].sessionId # NoSession
    /\ loads # <<>> /\ loads[1].sessionId = runs[r].sessionId

\* C27: after a turn in which analyzeData resolved, the displayed list ends
\* with the user's message followed by the assistant's message, on the first
\* turn of a new chat too
C27_TurnEndsList ==
    [][\A r \in Runs :
         (runs[r].pc # "finished" /\ TurnResolved(r)')
         => LastMessages(2)' = <<runs'[r].userMessage, runs'[r].reply>>]_vars

\* C27, with no history load during the turn: the list ends with the turn
C27_TurnEndsListWithoutLoad ==
    [][\A r \in Runs :
         (runs[r].pc # "finished" /\ TurnResolved(r)' /\ loads = <<>>)
         => LastMessages(2)' = <<runs'[r].userMessage, runs'[r].reply>>]_vars

\* C27, the first turn of a new chat ended and the list shows less than it
C27_FirstTurnLost ==
    \E r \in Runs :
       /\ TurnResolved(r) /\ FirstTurnOfNewChat(r)
       /\ loads[1].pc = "shown"
       /\ LastMessages(2) # <<runs[r].userMessage, runs[r].reply>>

\* nothing is in flight: every turn has ended and the history load is over
Quiescent ==
    /\ \A r \in Runs : runs[r].pc = "finished"
    /\ loads = <<>> \/ loads[1].pc \in {"shown", "failed"}

\* the message is stored in chat_history under the session
StoredUnder(msg, session) ==
    \E i \in Rows :
       /\ chat_history[i].session_id = session
       /\ chat_history[i].timestamp = msg.timestamp
       /\ chat_history[i].is_user_message = msg.isUser
       /\ chat_history[i].plain = msg.text

\* the rows a run saved: those of its user message and of its reply
RowsOfRun(r) ==
    {i \in Rows : chat_history[i].timestamp
                     \in {runs[r].userMessage.timestamp, runs[r].reply.timestamp}}

\* the reply of a run is stored under the session of its user message
C28_SavedUnderOneSession ==
    \A r \in Runs : \A i, j \in RowsOfRun(r) :
       chat_history[i].session_id = chat_history[j].session_id

\* C28: with nothing in flight, every displayed message is stored under the
\* selected session, and the rows of a turn are under one session, for turns
\* started in an open session
C28_DisplayedBelongToSession ==
    (Quiescent /\ \A r \in Runs : runs[r].currentSessionId # NoSession)
    => /\ \A k \in 1..Len(messages) : StoredUnder(messages[k], currentSessionId)
       /\ C28_SavedUnderOneSession

\* C28, a reply shown in the list of a session it is not stored under
C28_ReplyInOtherSession ==
    \E r \in Runs :
       /\ Quiescent
       /\ runs[r].currentSessionId # NoSession
       /\ currentSessionId # runs[r].currentSessionId
       /\ \E k \in 1..Len(messages) :
             /\ messages[k].timestamp = runs[r].reply.timestamp
             /\ StoredUnder(messages[k], runs[r].currentSessionId)
             /\ ~StoredUnder(messages[k], currentSessionId)

-----------------------------------------------------------------------------
(* Claims about the prompt's note on the dataset selection *)

SelectedNote ==
    "Selected Datasets: The user has selected specific datasets for analysis. Focus your analysis on these datasets only."
AllDataNote ==
    "Note: The user has not selected specific datasets, so analyze all available data."

\* the prompt of the request carries the note
PromptSays(note) == \E i \in 1..Len(prompt) : prompt[i] = note

\* C29: the prompt says the user selected specific datasets exactly when the
\* storage query of the same request was restricted to the selected
\* identifiers, and otherwise says that all available data is analysed
C29_NoteAgreesWithFetch ==
    prompt # <<>> =>
        /\ PromptSays(SelectedNote) <=> query.restricted
        /\ PromptSays(AllDataNote) <=> ~query.restricted

\* C29, what the note follows: a selection that is present and not empty
C29_NoteFollowsSelection ==
    prompt # <<>> =>
        /\ PromptSays(SelectedNote)
              <=> (selectedDatasets.present /\ Len(selectedDatasets.ids) > 0)
        /\ PromptSays(AllDataNote) <=> ~PromptSays(SelectedNote)

\* C29, a request whose selection holds 'all': every dataset of the owner was
\* fetched and the prompt says specific datasets were selected
C29_NoteDisagrees ==
    /\ prompt # <<>>
    /\ Includes(selectedDatasets.ids, "all")
    /\ ~query.restricted
    /\ Len(csvData) = Len(FlatMapUploads(RunQuery(BuildQuery(userId, Absent), data_sources)))
    /\ Len(csvData) > 1
    /\ PromptSays(SelectedNote)

-----------------------------------------------------------------------------
(* Claims about failures before the model call *)

\* an upload of the request whose data_json is not an array
UnsampleableFetched == \E i \in 1..Len(csvData) : csvData[i].json # "array"

\* C30: when the storage query answers with an error, or a fetched upload's
\* records cannot be sampled, the request ends without a model call and
\* resolves with the apology result of the catch block, the one a transport
\* failure gives; nothing is rejected
C30_FetchFailureGivesApology ==
    /\ [][(pc = "fetching_data" /\ pc' = "done") =>
             /\ httpCalls' = 0 /\ inFlight' = 0
             /\ prompt' = <<>>
             /\ outcome' = "resolved"
             /\ result' = ApologyResult
             /\ returnedAt' = "catch"]_vars
    /\ [][(pc = "fetching_data" /\ UnsampleableFetched') => pc' = "done"]_vars
    /\ []((pc = "done" /\ httpStatus = "network_error") => result = ApologyResult)

\* the storage query of a request with a key answered with an error
C30_Witness ==
    /\ pc = "done"
    /\ apiKey
    /\ fetchCalls = 1
    /\ query.issued
    /\ RunQuery(query, data_sources) # <<>>
    /\ csvData = <<>>
    /\ httpCalls = 0
    /\ outcome = "resolved"
    /\ result = ApologyResult

\* the rows came back and one of them holds an object for data_json
C30_UnsampleableWitness ==
    /\ pc = "done"
    /\ UnsampleableFetched
    /\ Len(csvData) > 1
    /\ dataContext = <<>>
    /\ httpCalls = 0
    /\ outcome = "resolved"
    /\ result = ApologyResult

====
